---- MODULE Spec2Model ----
(***************************************************************************)
(* Verification model of the proxy's core: the name-resolution chain, the  *)
(* header obfuscation of the HTTP relay and the CONNECT tunnel.  The       *)
(* reference variant is the 3.0.0 server (src/unnamed/part_006); the 2.0.0 *)
(* server (src/unnamed/part_000, lines 470-1076) and the fast variant      *)
(* (src/unnamed/part_009) are modelled where they implement the same       *)
(* operation differently.                                                   *)
(***************************************************************************)
EXTENDS Integers, Sequences, FiniteSets, TLC

VARIABLES
    \* ---- resolveHostname ------------------------------------------------
    rVariant,     \* which server file runs: "v3" = part_006, "v2" = part_000
    rHost,        \* the hostname argument
    rPc,          \* position inside resolveHostname
    rProv,        \* index of the DoH / DoT provider being tried
    rRetries,     \* the `retries` local of dnsOverHttps
    rTried,       \* strategies attempted so far, in order
    rFailed,      \* strategies that have failed
    rResult,      \* "PENDING", "THROW" or the returned value
    rStrategy,    \* the strategy whose answer was returned
    rAnswer,      \* the records of the answer that strategy received
    \* ---- one CONNECT session (server.on('connect')) ----------------------
    phase,        \* IDLE, RESOLVING, CONNECTING, ESTABLISHED or FAILED
    reqUrl,       \* req.url, as tokens (":" is the separator token)
    head,         \* number of early-data bytes that came with the request
    clientSocket, \* the client transport
    targetSocket, \* the destination transport
    chains,       \* pending sendNextChunk timers: [dir, chunks]
    cRecv,        \* client bytes handed to the relay so far (bytes 1..cRecv)
    tRecv,        \* destination bytes handed to the relay so far
    timedOut,     \* 'timeout' handlers that have run: [sock, phase]
    crashed,      \* an 'error' event was emitted with no listener
    dnsQueried,   \* hostnames resolveHostname was called with
    connAttempts, \* number of net.connect calls
    errored,      \* an 'error' event was emitted on a socket of the session
    discarded,    \* directions in which data was dropped without an 'error'
    \* ---- header preparation of one HTTP relay request --------------------
    hPc,               \* "received" or "sent"
    hVariant,          \* "v3" = part_006, "v2" / "v1" = part_000 (2.0.0 / first)
    parsedUrl,         \* new URL(targetUrl): protocol, hostname, port
    reqHeaders,        \* req.headers of the inbound request
    obfuscationLevel,  \* config.obfuscationLevel
    enableObfuscation, \* config.enableObfuscation
    frontingEnabled,   \* config.domainFronting.enabled
    sniEnabled,        \* config.sni.enabled
    outHeaders,        \* options.headers of the outbound request
    frontDomain,       \* the result of getFrontingDomain(parsedUrl.hostname)
    frontRule,         \* index of the rule its loop returned from, 0 if none
    servername,        \* options.servername (the TLS SNI), "none" when not set
    \* ---- one call of fragmentData -----------------------------------------
    fPc,               \* "call" or "returned"
    fData,             \* the buffer argument
    fChunks,           \* the returned array of chunks
    \* ---- one call of connectViaMultiHop and its callback -------------------
    mPc,               \* "call" or "returned"
    mKind,             \* the caller: "connect" or "request" handler
    hops,              \* config.multiHop.hops
    firstHop,          \* hops[0] after the random sort, "none" before
    hopSocket,         \* the socket to the first hop
    callbacks,         \* the invocations of the callback, in order
    transports,        \* the destination transports the callback opened
    established,       \* number of '200 Connection Established' sent
    clientEnded,       \* clientSocket.end was called by an error handler
    \* ---- early data of one CONNECT session, per CONNECT handler -----------
    ePc,               \* "request", "connecting", "established" or "crashed"
    eVariant,          \* "v3" (part_006), "v2" (part_000), "middleware" (part_004)
    eHead,             \* the head buffer that came with the CONNECT request
    eSent,             \* number of bytes the client sent after the request
    ePending,          \* bytes received from the client, not yet forwarded
    eConnected,        \* the destination connection succeeded
    eOut,              \* bytes written to the destination socket, in order
    \* ---- one WebSocket tunnel session (server.on('upgrade')) --------------
    wPc,               \* "upgrade", "rejected", "resolving", "connecting", ...
    wVariant,          \* "v3" (part_006) or "v2" (part_000)
    wPath,             \* the path of req.url
    wTargetParam,      \* the target query parameter, "" when it is missing
    wClient,           \* the client socket
    wTarget,           \* the destination socket
    wCrashed,          \* an 'error' event was emitted with no listener
    wDns,              \* number of calls of resolveHostname
    wConn,             \* number of destination connections opened
    wTimedOut,         \* the sockets whose idle timer has fired
    \* ---- the circuit breaker and the connection pools ---------------------
    now,               \* Date.now(), in units of 12 minutes
    lastAgentReset,    \* server._lastAgentReset, 0 while undefined
    globalAgent,       \* generation of http.globalAgent and https.globalAgent
    relays,            \* the HTTP relay sessions
    tunnels,           \* established CONNECT and WebSocket sessions
    \* ---- two failing HTTP relay requests, side by side --------------------
    xVariant,          \* "v3" (part_006), "v2" (part_000), "middleware" (proxy.js)
    xKind,             \* what fails: "parse", "resolve" or "connect"
    xErr,              \* per request: err.message, "none" before the failure
    xHeadersSent,      \* per request: res.headersSent
    xRes,              \* per request: the error response, <<>> while none
    \* ---- the bodies of one HTTP relay request -----------------------------
    bVariant,          \* "v3" (part_006) or "v2" (part_000)
    bRecv,             \* number of body chunks received from the client
    bReqEnd,           \* req has emitted 'end'
    bTimers,           \* pending setTimeout callbacks: chunk numbers, EndTimer
    bDelays,           \* <<timer, delay in ms>> of every setTimeout call so far
    bOut,              \* chunks written to proxyReq, in order
    bEnded,            \* proxyReq.end() was called
    bLost,             \* chunks written after proxyReq.end()
    proxyRes,          \* content-encoding of the destination's response
    res,               \* the response delivered to the client, <<>> before
    \* ---- getTlsOptions ----------------------------------------------------
    kVariant,          \* "v3" (part_006) or "v2" (part_000)
    kNow,              \* Date.now(), in units of 100 seconds
    password,          \* config.password
    ticketKeys,        \* per call of getTlsOptions: [at, keys]
    \* ---- one call of obfuscateRequest(req, headers) -----------------------
    oPc,               \* "call" or "returned"
    oReq,              \* the req argument: method and url
    oHeaders,          \* the headers argument
    oResult,           \* the returned headers, << >> before the return
    \* ---- the while loop of one fragmentData(data) call ---------------------
    lPc,               \* "loop" or "returned"
    lMin,              \* config.fragmentation.minSize
    lMax,              \* config.fragmentation.maxSize
    lData,             \* data.length
    lOffset,           \* offset
    lChunks,           \* the lengths of the chunks pushed so far
    \* ---- one connection of the standalone WebSocket tunnel (sockProxy.js) --
    sClient,           \* ws.readyState
    sTarget,           \* targetWs.readyState
    sSent,             \* number of 'message' events of ws (messages 1, 2, ...)
    sRecv,             \* number of 'message' events of targetWs
    sToTarget,         \* the messages passed to targetWs.send, in order
    sToClient,         \* the messages passed to ws.send, in order
    \* ---- one call of resolveHostname of part_009 ---------------------------
    nPc,               \* "dns", "doh" or "done"
    nHost,             \* the hostname argument
    nDns,              \* how resolver.resolve4 settled, << >> before
    nDoh,              \* how the DoH request settled, << >> before
    nResult            \* "PENDING", the returned value, or "THROW"

rvars == <<rVariant, rHost, rPc, rProv, rRetries, rTried, rFailed,
           rResult, rStrategy, rAnswer>>

tvars == <<phase, reqUrl, head, clientSocket, targetSocket, chains, cRecv, tRecv,
           timedOut, crashed, dnsQueried, connAttempts, errored, discarded>>

hvars == <<hPc, hVariant, parsedUrl, reqHeaders, obfuscationLevel, enableObfuscation,
           frontingEnabled, sniEnabled, outHeaders, frontDomain, frontRule,
           servername>>

fvars == <<fPc, fData, fChunks>>

mvars == <<mPc, mKind, hops, firstHop, hopSocket, callbacks, transports,
          established, clientEnded>>

evars == <<ePc, eVariant, eHead, eSent, ePending, eConnected, eOut>>

wvars == <<wPc, wVariant, wPath, wTargetParam, wClient, wTarget, wCrashed, wDns, wConn,
          wTimedOut>>

pvars == <<now, lastAgentReset, globalAgent, relays, tunnels>>

xvars == <<xVariant, xKind, xErr, xHeadersSent, xRes>>

bvars == <<bVariant, bRecv, bReqEnd, bTimers, bDelays, bOut, bEnded, bLost, proxyRes, res>>

kvars == <<kVariant, kNow, password, ticketKeys>>

ovars == <<oPc, oReq, oHeaders, oResult>>

lvars == <<lPc, lMin, lMax, lData, lOffset, lChunks>>

svars == <<sClient, sTarget, sSent, sRecv, sToTarget, sToClient>>

nvars == <<nPc, nHost, nDns, nDoh, nResult>>

vars == <<rvars, tvars, hvars, fvars, mvars, evars, wvars, pvars, xvars, bvars, kvars,
          ovars, lvars, svars, nvars>>

\* the state outside the resolver, the tunnel, the request handler,
\* fragmentData and connectViaMultiHop
exceptResolve  == <<tvars, hvars, fvars, mvars, evars, wvars, pvars, xvars, bvars, kvars,
                   ovars, lvars, svars, nvars>>
exceptTunnel   == <<rvars, hvars, fvars, mvars, evars, wvars, pvars, xvars, bvars, kvars,
                   ovars, lvars, svars, nvars>>
exceptRequest  == <<rvars, tvars, fvars, mvars, evars, wvars, pvars, xvars, bvars, kvars,
                   ovars, lvars, svars, nvars>>
exceptFragment == <<rvars, tvars, hvars, mvars, evars, wvars, pvars, xvars, bvars, kvars,
                   ovars, lvars, svars, nvars>>
exceptMultiHop == <<rvars, tvars, hvars, fvars, evars, wvars, pvars, xvars, bvars, kvars,
                   ovars, lvars, svars, nvars>>
exceptEarly    == <<rvars, tvars, hvars, fvars, mvars, wvars, pvars, xvars, bvars, kvars,
                   ovars, lvars, svars, nvars>>
exceptWebSocket == <<rvars, tvars, hvars, fvars, mvars, evars, pvars, xvars, bvars, kvars,
                   ovars, lvars, svars, nvars>>
exceptPools    == <<rvars, tvars, hvars, fvars, mvars, evars, wvars, xvars, bvars, kvars,
                   ovars, lvars, svars, nvars>>
exceptErrors   == <<rvars, tvars, hvars, fvars, mvars, evars, wvars, pvars, bvars, kvars,
                   ovars, lvars, svars, nvars>>
exceptBodies   == <<rvars, tvars, hvars, fvars, mvars, evars, wvars, pvars, xvars, kvars,
                   ovars, lvars, svars, nvars>>
exceptTls      == <<rvars, tvars, hvars, fvars, mvars, evars, wvars, pvars, xvars, bvars,
                   ovars, lvars, svars, nvars>>
exceptObfuscate == <<rvars, tvars, hvars, fvars, mvars, evars, wvars, pvars, xvars, bvars,
                    kvars, lvars, svars, nvars>>
exceptLoop     == <<rvars, tvars, hvars, fvars, mvars, evars, wvars, pvars, xvars, bvars,
                   kvars, ovars, svars, nvars>>
exceptSock     == <<rvars, tvars, hvars, fvars, mvars, evars, wvars, pvars, xvars, bvars,
                   kvars, ovars, lvars, nvars>>
exceptFast     == <<rvars, tvars, hvars, fvars, mvars, evars, wvars, pvars, xvars, bvars,
                   kvars, ovars, lvars, svars>>

(***************************************************************************)
(* Bounds of the model.                                                    *)
(***************************************************************************)
MaxAnswers == 2      \* longest Answer array / address list of a response
MaxBytes   == 4      \* bytes relayed per direction in one session
MaxHead    == 1      \* longest early-data buffer
MaxBuf     == 8      \* longest buffer passed to fragmentData on its own
MaxHops    == 2      \* longest config.multiHop.hops list
MaxLater   == 3      \* bytes a client sends after its CONNECT request
MaxTime    == 8      \* latest clock value, in units of 12 minutes
MaxRelays  == 2      \* HTTP relay sessions of one run
MaxChunks  == 3      \* body chunks of one relayed request
MaxCalls   == 2      \* calls of getTlsOptions
MaxClock   == 4      \* latest clock value of getTlsOptions, in units of 100 s

(***************************************************************************)
(* Values.                                                                 *)
(***************************************************************************)
Hostnames == {"www.youtube.com", "youtube.com", "en.wikipedia.org", "constructor"}

\* addresses a resolver may answer with, and the name a CNAME record carries
AnswerAddrs == {"93.184.216.34", "142.250.1.91"}
CnameData   == "edge.l.example.net."

\* the static table of part_006
hardcodedIPs ==
    [h \in {"www.pornhub.com", "www.xvideos.com", "www.facebook.com",
            "www.youtube.com"} |->
       CASE h = "www.pornhub.com"  -> <<"66.254.114.41", "66.254.114.79", "205.185.208.170">>
         [] h = "www.xvideos.com"  -> <<"185.88.181.7", "185.88.181.2">>
         [] h = "www.facebook.com" -> <<"157.240.3.35", "157.240.22.35">>
         [] h = "www.youtube.com"  -> <<"172.217.11.78", "172.217.11.110">>]

\* the fixed value dnsOverTls resolves with
DotPlaceholder(v) == IF v = "v3" THEN "1.1.1.1" ELSE "1.0.0.1"

StaticAddrs == UNION {{hardcodedIPs[h][i] : i \in 1..Len(hardcodedIPs[h])} :
                      h \in DOMAIN hardcodedIPs}

\* every string of the model that is a dotted-quad IPv4 literal
IPv4Literals == AnswerAddrs \cup StaticAddrs \cup {"1.1.1.1", "1.0.0.1"}

IsIPv4(x) == x \in IPv4Literals

\* hostname.replace(/^www\./, '')
StripWww(h) ==
    CASE h = "www.youtube.com" -> "youtube.com"
      [] OTHER                 -> h

\* seq[i] as JavaScript evaluates it: undefined outside the array
Elem(seq, i) == IF i \in 1..Len(seq) THEN seq[i] ELSE "UNDEFINED"

\* the indices Math.floor(Math.random() * n) can produce (1-based)
RandomIndex(n) == 1..n

SeqsUpTo(S, n) == UNION {[1..k -> S] : k \in 0..n}

Range(seq) == {seq[i] : i \in 1..Len(seq)}

(***************************************************************************)
(* What the network can answer.                                            *)
(***************************************************************************)
DnsRecords == {[type |-> 1, data |-> a] : a \in AnswerAddrs}
                 \cup {[type |-> 5, data |-> CnameData]}

\* a DoH exchange: a transport error / timeout / unparsable body, or a JSON
\* body with an Answer array (possibly empty or absent)
DohResponses == {[ok |-> FALSE, Answer |-> <<>>]}
                  \cup {[ok |-> TRUE, Answer |-> s] : s \in SeqsUpTo(DnsRecords, MaxAnswers)}

\* resolver.resolve4: rejects, or resolves with a non-empty address list
Resolve4Responses == {[ok |-> FALSE, addresses |-> <<>>]}
                       \cup {[ok |-> TRUE, addresses |-> s] :
                               s \in SeqsUpTo(AnswerAddrs, MaxAnswers) \ {<<>>}}

\* a DoT exchange: socket error, idle timeout, or a data event carrying a
\* DNS message whose answer section lists `cands`
DotResponses == {[ev |-> "error", cands |-> {}], [ev |-> "timeout", cands |-> {}]}
                  \cup {[ev |-> "data", cands |-> S] : S \in SUBSET AnswerAddrs}

(***************************************************************************)
(* Per-variant shape of the chain.                                         *)
(***************************************************************************)
NumDohProviders(v) == IF v = "v3" THEN 6 ELSE 3
\* a retry budget of four requests per provider
DohRetriesFour(v)  == IF v = "v3" THEN 4 ELSE 1
DohRetries(v)      == IF v = "v3" THEN 3 ELSE 1
NumDotProviders(v) == IF v = "v3" THEN 3 ELSE 1

\* a chain in which a failure of the recursive resolvers skips DNS-over-TLS
NextStrategySkipsDot(v, s) ==
    IF v = "v3"
    THEN CASE s = "doh" -> "dns" [] s = "dns" -> "static" [] s = "dot" -> "static"
    ELSE CASE s = "dns" -> "doh" [] s = "doh" -> "rethrow" [] s = "dot" -> "rethrow"

\* the strategy resolveHostname tries first, and the one after a failure
FirstStrategy(v) == IF v = "v3" THEN "doh" ELSE "dns"
NextStrategy(v, s) ==
    IF v = "v3"
    THEN CASE s = "doh" -> "dns" [] s = "dns" -> "dot" [] s = "dot" -> "static"
    ELSE CASE s = "dns" -> "doh" [] s = "doh" -> "dot" [] s = "dot" -> "rethrow"

\* the answers dnsOverHttps can resolve with for a parsed body
\* part_006: a random type-1 record of Answer
DohParseV3(Answer) ==
    IF Len(Answer) > 0
    THEN LET answers == SelectSeq(Answer, LAMBDA a : a.type = 1)
             \* an index past the end raises a TypeError inside the try: a reject
         IN  {answers[i].data : i \in RandomIndex(Len(answers)) \cap 1..Len(answers)}
    ELSE {}
\* part_000: Answer[0].data
DohParseV2(Answer) ==
    IF Len(Answer) > 0 THEN {Answer[1].data} ELSE {}

DohParse(v, Answer) == IF v = "v3" THEN DohParseV3(Answer) ELSE DohParseV2(Answer)

\* an address list as the A records it stands for
ARecords(addrs) == {[type |-> 1, data |-> a] : a \in addrs}

\* resolve4 result selection: part_006 random, part_000 addresses[0]
Resolve4Pick(v, addresses) ==
    IF v = "v3"
    THEN {Elem(addresses, i) : i \in RandomIndex(Len(addresses))}
    ELSE {Elem(addresses, 1)}

(***************************************************************************)
(* resolveHostname as a process.                                           *)
(***************************************************************************)
RInit ==
    /\ rVariant \in {"v3", "v2"}
    /\ rHost \in Hostnames
    /\ rPc = FirstStrategy(rVariant)
    /\ rProv = 1
    /\ rRetries = DohRetries(rVariant)
    /\ rTried = <<>>
    /\ rFailed = {}
    /\ rResult = "PENDING"
    /\ rStrategy = "none"
    /\ rAnswer = {}

Note(s) == IF s \in Range(rTried) THEN rTried ELSE Append(rTried, s)

Return(val, strat, answer) ==
    /\ rResult' = val
    /\ rStrategy' = strat
    /\ rAnswer' = answer
    /\ rPc' = "done"

\* a strategy threw: control moves to the enclosing catch
StrategyFailed(s) ==
    /\ rFailed' = rFailed \cup {s}
    /\ rPc' = NextStrategy(rVariant, s)
    /\ rProv' = 1
    /\ rRetries' = DohRetries(rVariant)
    /\ UNCHANGED <<rResult, rStrategy, rAnswer>>

\* one https.get of dnsOverHttps and its completion
DohAttempt ==
    /\ rPc = "doh"
    /\ rTried' = Note("doh")
    /\ \E resp \in DohResponses :
         LET vals == IF resp.ok THEN DohParse(rVariant, resp.Answer) ELSE {}
         IN  \/ /\ vals # {}
                /\ \E val \in vals : Return(val, "doh", Range(resp.Answer))
                /\ UNCHANGED <<rProv, rRetries, rFailed>>
             \/ /\ vals = {}
                /\ IF rRetries > 1
                   THEN /\ rRetries' = rRetries - 1
                        /\ UNCHANGED <<rProv, rPc, rFailed, rResult, rStrategy, rAnswer>>
                   ELSE IF rProv < NumDohProviders(rVariant)
                   THEN /\ rProv' = rProv + 1
                        /\ rRetries' = DohRetries(rVariant)
                        /\ UNCHANGED <<rPc, rFailed, rResult, rStrategy, rAnswer>>
                   ELSE StrategyFailed("doh")
    /\ UNCHANGED <<rVariant, rHost>>

\* resolver.resolve4(hostname)
DnsAttempt ==
    /\ rPc = "dns"
    /\ rTried' = Note("dns")
    /\ \E resp \in Resolve4Responses :
         IF resp.ok
         THEN /\ \E val \in Resolve4Pick(rVariant, resp.addresses) :
                    Return(val, "dns", ARecords(Range(resp.addresses)))
              /\ UNCHANGED <<rProv, rRetries, rFailed>>
         ELSE StrategyFailed("dns")
    /\ UNCHANGED <<rVariant, rHost>>

\* one tls.connect of dnsOverTls and the event that settles its promise
DotAttempt ==
    /\ rPc = "dot"
    /\ rTried' = Note("dot")
    /\ \E resp \in DotResponses :
         IF resp.ev = "data"
         THEN /\ Return(DotPlaceholder(rVariant), "dot", ARecords(resp.cands))
              /\ UNCHANGED <<rProv, rRetries, rFailed>>
         ELSE \* part_000 has no 'timeout' listener: only 'error' rejects
              /\ (rVariant = "v2" => resp.ev = "error")
              /\ IF rProv < NumDotProviders(rVariant)
                 THEN /\ rProv' = rProv + 1
                      /\ UNCHANGED <<rRetries, rPc, rFailed, rResult, rStrategy, rAnswer>>
                 ELSE StrategyFailed("dot")
    /\ UNCHANGED <<rVariant, rHost>>

\* names every object literal inherits from Object.prototype: for these
\* hardcodedIPs[domain] is a function (or the prototype), which is truthy
\* and has no indexed elements
ObjectPrototypeKeys == {"constructor", "toString", "valueOf", "hasOwnProperty",
                        "__proto__"}

\* hardcodedIPs[domain] as the property lookup evaluates it
Property(domain) ==
    IF domain \in DOMAIN hardcodedIPs
    THEN [truthy |-> TRUE, elems |-> hardcodedIPs[domain],
          n |-> Len(hardcodedIPs[domain])]
    ELSE IF domain \in ObjectPrototypeKeys
    THEN [truthy |-> TRUE, elems |-> <<>>, n |-> 1]
    ELSE [truthy |-> FALSE, elems |-> <<>>, n |-> 0]

\* the loop over [hostname, baseDomain]: the values `return randomIP` can
\* return, or the empty set when the loop falls through to `throw err`
StaticLookup(h) ==
    LET first == IF Property(h).truthy THEN Property(h) ELSE Property(StripWww(h))
    IN  IF first.truthy
        THEN [found |-> TRUE, elems |-> first.elems,
              values |-> {Elem(first.elems, i) : i \in RandomIndex(first.n)}]
        ELSE [found |-> FALSE, elems |-> <<>>, values |-> {}]

\* the outer catch of part_006: the static table, or rethrow
StaticFallback ==
    /\ rPc = "static"
    /\ rTried' = Note("static")
    /\ LET hit == StaticLookup(rHost)
       IN  IF hit.found
           THEN /\ \E val \in hit.values : Return(val, "static", ARecords(Range(hit.elems)))
                /\ UNCHANGED rFailed
           ELSE /\ rResult' = "THROW"
                /\ rFailed' = rFailed \cup {"static"}
                /\ rPc' = "done"
                /\ UNCHANGED <<rStrategy, rAnswer>>
    /\ UNCHANGED <<rVariant, rHost, rProv, rRetries>>

\* the outer catch of part_000: log and rethrow
Rethrow ==
    /\ rPc = "rethrow"
    /\ rResult' = "THROW"
    /\ rPc' = "done"
    /\ UNCHANGED <<rVariant, rHost, rProv, rRetries, rTried, rFailed, rStrategy, rAnswer>>

(***************************************************************************)
(* The CONNECT tunnel of part_006.                                         *)
(***************************************************************************)
\* config.fragmentation and config.trafficShaping, in units of 200 bytes
\* (400 and 1400 bytes in the source); both features are enabled
minSize == 2
maxSize == 7
\* socket.setTimeout(60000), in ticks of 30 s
IdleTimeout == 2

ConnectTargets == {<<"example.org", ":", "443">>, <<"example.org">>,
                   <<":", ":", ":", "notvalid">>}

\* req.url.split(':')
RECURSIVE Split(_)
Split(toks) ==
    IF toks = <<>> THEN <<"">>
    ELSE LET prev == Split(SubSeq(toks, 1, Len(toks) - 1))
             last == toks[Len(toks)]
         IN  IF last = ":" THEN Append(prev, "")
             ELSE [prev EXCEPT ![Len(prev)] = last]

NaN == -1
\* parseInt(str): a leading decimal number, else NaN (also for undefined)
parseInt(str) == CASE str = "443" -> 443 [] str = "8080" -> 8080 [] OTHER -> NaN

targetHost(url) == Split(url)[1]
targetPort(url) ==
    LET n == parseInt(Elem(Split(url), 2))
    IN  IF n = NaN \/ n = 0 THEN 443 ELSE n

\* the bytes first..last of a stream, as a sequence
Bytes(first, last) == [i \in 1..(last - first + 1) |-> first + i - 1]

\* the sizes Math.floor(Math.random() * maxSize + minSize) would yield
ChunkSizesSpanMax == minSize..(maxSize + minSize - 1)

\* the chunk sizes Math.floor(Math.random() * (maxSize - minSize) + minSize) yields
ChunkSizes == IF maxSize > minSize THEN minSize..(maxSize - 1) ELSE {minSize}

\* a loop `while (offset + chunkSize <= data.length)`: the remainder is lost
RECURSIVE fragmentDataNoRemainder(_)
fragmentDataNoRemainder(data) ==
    IF Len(data) = 0 THEN {<<>>}
    ELSE UNION {IF k > Len(data) THEN {<<>>}
                ELSE {<<SubSeq(data, 1, k)>> \o rest :
                        rest \in fragmentDataNoRemainder(SubSeq(data, k + 1, Len(data)))}
                : k \in ChunkSizes}

\* fragmentData(data): every chunk sequence the loop can produce
RECURSIVE fragmentData(_)
fragmentData(data) ==
    IF Len(data) = 0 THEN {<<>>}
    ELSE UNION {LET end == IF k < Len(data) THEN k ELSE Len(data)
                IN  {<<SubSeq(data, 1, end)>> \o rest :
                        rest \in fragmentData(SubSeq(data, end + 1, Len(data)))}
                : k \in ChunkSizes}

\* buffers fragmentData is called with on its own
FInit ==
    /\ fPc = "call"
    /\ fData \in SeqsUpTo({0, 1}, MaxBuf)
    /\ fChunks = <<>>

\* one call of fragmentData
Fragment ==
    /\ fPc = "call"
    /\ fChunks' \in fragmentData(fData)
    /\ fPc' = "returned"
    /\ UNCHANGED fData

NewClientSocket ==
    [destroyed |-> FALSE, ended |-> FALSE, eof |-> FALSE, armed |-> FALSE, idle |-> 0,
     status |-> <<>>, out |-> <<>>]
NoTargetSocket ==
    [state |-> "none", destroyed |-> FALSE, ended |-> FALSE, eof |-> FALSE,
     armed |-> FALSE, idle |-> 0, out |-> <<>>]

TInit ==
    /\ phase = "IDLE"
    /\ reqUrl = <<>>
    /\ head = 0
    /\ clientSocket = NewClientSocket
    /\ targetSocket = NoTargetSocket
    /\ chains = {}
    /\ cRecv = 0
    /\ tRecv = 0
    /\ timedOut = {}
    /\ crashed = FALSE
    /\ dnsQueried = {}
    /\ connAttempts = 0
    /\ errored = FALSE
    /\ discarded = {}

\* a socket whose two directions are finished is destroyed by the stream
\* machinery (autoDestroy)
Settle(s) == IF s.ended /\ s.eof THEN [s EXCEPT !.destroyed = TRUE] ELSE s

(* The handlers and stream calls below are functions from the socket pair   *)
(* <<client, target>> to the socket pair after the call.                    *)

\* clientSocket.on('error'): if (!targetSocket.destroyed) targetSocket.end()
OnClientError(c, t) ==
    IF ~t.destroyed THEN <<c, [t EXCEPT !.ended = TRUE]>> ELSE <<c, t>>

\* clientSocket.end('HTTP/1.1 502 Bad Gateway\r\n\r\n'); on a socket whose
\* writable side has ended the write raises 'error' on that socket
ClientEnd502(c, t) ==
    IF c.ended
    THEN OnClientError([c EXCEPT !.destroyed = TRUE], t)
    ELSE <<[c EXCEPT !.status = Append(@, "502"), !.ended = TRUE, !.idle = 0], t>>

\* targetSocket.on('error'): if (!clientSocket.destroyed) clientSocket.end(502)
OnTargetError(c, t) ==
    IF ~c.destroyed THEN ClientEnd502(c, t) ELSE <<c, t>>

\* targetSocket.write(bytes)
WriteTarget(c, t, bytes) ==
    IF t.destroyed THEN <<c, t>>
    ELSE IF t.ended THEN OnTargetError(c, [t EXCEPT !.destroyed = TRUE])
    ELSE <<c, [t EXCEPT !.out = @ \o bytes, !.idle = 0]>>

\* clientSocket.write(bytes)
WriteClient(c, t, bytes) ==
    IF c.destroyed THEN <<c, t>>
    ELSE IF c.ended THEN OnClientError([c EXCEPT !.destroyed = TRUE], t)
    ELSE <<[c EXCEPT !.out = @ \o bytes, !.idle = 0], t>>

\* clientSocket.write('HTTP/1.1 200 Connection Established\r\n\r\n')
WriteClient200(c, t) ==
    IF c.destroyed THEN <<c, t>>
    ELSE IF c.ended THEN OnClientError([c EXCEPT !.destroyed = TRUE], t)
    ELSE <<[c EXCEPT !.status = Append(@, "200"), !.idle = 0], t>>

\* socket.write on a socket whose writable side has ended raises 'error'; on a
\* destroyed socket it does nothing
WriteRaises(s) == ~s.destroyed /\ s.ended

SetSockets(pair) ==
    /\ clientSocket' = Settle(pair[1])
    /\ targetSocket' = Settle(pair[2])

\* server.on('connect') up to `await resolveHostname(targetHost)`
ConnectRequest ==
    /\ phase = "IDLE"
    /\ \E url \in ConnectTargets, h \in 0..MaxHead :
         /\ reqUrl' = url
         /\ head' = h
         /\ cRecv' = h
         /\ dnsQueried' = dnsQueried \cup {targetHost(url)}
    /\ phase' = "RESOLVING"
    /\ UNCHANGED <<clientSocket, targetSocket, chains, tRecv, timedOut, crashed,
                   connAttempts, errored, discarded>>

\* resolveHostname returned: connectViaMultiHop (no hops configured) calls
\* back at once; net.connect, setTimeout on both sockets, handlers attached
ResolveReturned ==
    /\ phase = "RESOLVING" /\ ~crashed
    /\ phase' = "CONNECTING"
    /\ connAttempts' = connAttempts + 1
    /\ targetSocket' = [NoTargetSocket EXCEPT !.state = "connecting", !.armed = TRUE]
    /\ clientSocket' = [clientSocket EXCEPT !.armed = TRUE, !.idle = 0]
    /\ UNCHANGED <<reqUrl, head, chains, cRecv, tRecv, timedOut, crashed, dnsQueried,
                   errored, discarded>>

\* resolveHostname threw: the catch block
ResolveThrew ==
    /\ phase = "RESOLVING" /\ ~crashed
    /\ phase' = "FAILED"
    /\ SetSockets(IF ~clientSocket.destroyed
                  THEN ClientEnd502(clientSocket, targetSocket)
                  ELSE <<clientSocket, targetSocket>>)
    /\ UNCHANGED <<reqUrl, head, chains, cRecv, tRecv, timedOut, crashed, dnsQueried,
                   connAttempts, discarded>>
    /\ errored' = (errored \/ WriteRaises(clientSocket))

\* the connect callback: completeConnection
completeConnection ==
    /\ phase = "CONNECTING" /\ ~crashed
    /\ targetSocket.state = "connecting" /\ ~targetSocket.destroyed
    /\ phase' = "ESTABLISHED"
    /\ LET t0 == [targetSocket EXCEPT !.state = "open", !.idle = 0]
           p1 == WriteClient200(clientSocket, t0)
           p2 == IF head > 0 THEN WriteTarget(p1[1], p1[2], Bytes(1, head)) ELSE p1
       IN  /\ SetSockets(p2)
           /\ errored' = (errored \/ WriteRaises(clientSocket)
                                  \/ (head > 0 /\ WriteRaises(p1[2])))
    /\ UNCHANGED <<reqUrl, head, chains, cRecv, tRecv, timedOut, crashed, dnsQueried,
                   connAttempts, discarded>>


\* socket.writable
writable(s) == s.state # "none" /\ ~s.destroyed /\ ~s.ended

Live(s) == s.armed /\ ~s.destroyed

\* the per-'data' closure of setupBidirectionalFlow: fragment, write the first
\* chunk at once, leave the rest to a chain of setTimeout(sendNextChunk)
Relay(dir, data, pair) ==
    \E chunks \in fragmentData(data) :
       /\ SetSockets(IF dir = "c2t"
                     THEN WriteTarget(pair[1], pair[2], chunks[1])
                     ELSE WriteClient(pair[1], pair[2], chunks[1]))
       /\ chains' = IF Len(chunks) > 1
                    THEN chains \cup {[dir |-> dir, chunks |-> Tail(chunks)]}
                    ELSE chains

\* clientSocket.on('data'); a buffer that finds the destination unwritable is
\* discarded by the early return
ClientData ==
    /\ phase = "ESTABLISHED" /\ ~crashed
    /\ ~clientSocket.destroyed /\ ~clientSocket.eof
    /\ LET c == [clientSocket EXCEPT !.idle = 0]
       IN  IF ~writable(targetSocket)
           THEN /\ SetSockets(<<c, targetSocket>>)
                /\ discarded' = discarded \cup {"c2t"}
                /\ UNCHANGED <<chains, cRecv>>
           ELSE \E n \in 1..(MaxBytes + head - cRecv) :
                  /\ cRecv' = cRecv + n
                  /\ Relay("c2t", Bytes(cRecv + 1, cRecv + n), <<c, targetSocket>>)
                  /\ UNCHANGED discarded
    /\ UNCHANGED <<phase, reqUrl, head, tRecv, timedOut, crashed, dnsQueried, connAttempts,
                   errored>>

\* targetSocket.on('data')
TargetData ==
    /\ phase = "ESTABLISHED" /\ ~crashed
    /\ ~targetSocket.destroyed /\ ~targetSocket.eof
    /\ LET t == [targetSocket EXCEPT !.idle = 0]
       IN  IF ~(~clientSocket.destroyed /\ ~clientSocket.ended)
           THEN /\ SetSockets(<<clientSocket, t>>)
                /\ discarded' = discarded \cup {"t2c"}
                /\ UNCHANGED <<chains, tRecv>>
           ELSE \E n \in 1..(MaxBytes - tRecv) :
                  /\ tRecv' = tRecv + n
                  /\ Relay("t2c", Bytes(tRecv + 1, tRecv + n), <<clientSocket, t>>)
                  /\ UNCHANGED discarded
    /\ UNCHANGED <<phase, reqUrl, head, cRecv, timedOut, crashed, dnsQueried, connAttempts,
                   errored>>

\* a jitter timer fires: sendNextChunk writes the next chunk and re-arms
sendNextChunk ==
    /\ ~crashed
    /\ \E ch \in chains :
         /\ SetSockets(IF ch.dir = "c2t"
                       THEN WriteTarget(clientSocket, targetSocket, Head(ch.chunks))
                       ELSE WriteClient(clientSocket, targetSocket, Head(ch.chunks)))
         /\ chains' = (chains \ {ch}) \cup
                        (IF Len(ch.chunks) > 1
                         THEN {[ch EXCEPT !.chunks = Tail(ch.chunks)]} ELSE {})
         /\ LET receiver == IF ch.dir = "c2t" THEN targetSocket ELSE clientSocket
            IN  /\ errored' = (errored \/ WriteRaises(receiver))
                /\ discarded' = IF receiver.destroyed
                                THEN discarded \cup {ch.dir} ELSE discarded
    /\ UNCHANGED <<phase, reqUrl, head, cRecv, tRecv, timedOut, crashed, dnsQueried,
                   connAttempts>>

\* 30 s pass without activity; the jitter timers (at most 100 ms) run first
Tick ==
    /\ ~crashed /\ chains = {}
    /\ Live(clientSocket) \/ Live(targetSocket)
    /\ Live(clientSocket) => clientSocket.idle < IdleTimeout
    /\ Live(targetSocket) => targetSocket.idle < IdleTimeout
    /\ clientSocket' = IF Live(clientSocket)
                       THEN [clientSocket EXCEPT !.idle = @ + 1] ELSE clientSocket
    /\ targetSocket' = IF Live(targetSocket)
                       THEN [targetSocket EXCEPT !.idle = @ + 1] ELSE targetSocket
    /\ UNCHANGED <<phase, reqUrl, head, chains, cRecv, tRecv, timedOut, crashed,
                   dnsQueried, connAttempts,
                   errored, discarded>>

\* targetSocket.on('timeout'): if (!targetSocket.destroyed) targetSocket.destroy()
OnTargetTimeout(c, t) == <<c, [t EXCEPT !.destroyed = TRUE]>>

\* clientSocket.on('timeout'): if (!clientSocket.destroyed) clientSocket.destroy()
OnClientTimeout(c, t) == <<[c EXCEPT !.destroyed = TRUE], t>>

TargetTimeout ==
    /\ ~crashed
    /\ Live(targetSocket) /\ targetSocket.idle = IdleTimeout
    /\ SetSockets(OnTargetTimeout(clientSocket, targetSocket))
    /\ timedOut' = timedOut \cup {[sock |-> "target", phase |-> phase]}
    /\ UNCHANGED <<phase, reqUrl, head, chains, cRecv, tRecv, crashed, dnsQueried,
                   connAttempts,
                   errored, discarded>>

ClientTimeout ==
    /\ ~crashed
    /\ Live(clientSocket) /\ clientSocket.idle = IdleTimeout
    /\ SetSockets(OnClientTimeout(clientSocket, targetSocket))
    /\ timedOut' = timedOut \cup {[sock |-> "client", phase |-> phase]}
    /\ UNCHANGED <<phase, reqUrl, head, chains, cRecv, tRecv, crashed, dnsQueried,
                   connAttempts,
                   errored, discarded>>

\* the session's listeners are on the client socket only once the
\* connectViaMultiHop callback has run
ListenersAttached == phase \in {"CONNECTING", "ESTABLISHED"}

\* the client socket raises 'error' (reset by the peer)
ClientError ==
    /\ phase # "IDLE" /\ ~crashed
    /\ ~clientSocket.destroyed
    /\ IF ListenersAttached
       THEN /\ SetSockets(OnClientError([clientSocket EXCEPT !.destroyed = TRUE],
                                        targetSocket))
            /\ UNCHANGED crashed
       ELSE /\ clientSocket' = [clientSocket EXCEPT !.destroyed = TRUE]
            /\ crashed' = TRUE
            /\ UNCHANGED targetSocket
    /\ UNCHANGED <<phase, reqUrl, head, chains, cRecv, tRecv, timedOut, dnsQueried,
                   connAttempts,
                   discarded>>
    /\ errored' = TRUE

\* the destination socket raises 'error' (refused, unreachable, reset)
TargetError ==
    /\ ~crashed
    /\ targetSocket.state # "none" /\ ~targetSocket.destroyed
    /\ SetSockets(OnTargetError(clientSocket, [targetSocket EXCEPT !.destroyed = TRUE]))
    /\ UNCHANGED <<phase, reqUrl, head, chains, cRecv, tRecv, timedOut, crashed,
                   dnsQueried, connAttempts,
                   discarded>>
    /\ errored' = TRUE

\* the client half-closes; clientSocket.on('end') runs if it is attached
ClientEnd ==
    /\ phase # "IDLE" /\ ~crashed
    /\ ~clientSocket.destroyed /\ ~clientSocket.eof
    /\ LET c == [clientSocket EXCEPT !.eof = TRUE]
       IN  SetSockets(IF ListenersAttached /\ ~targetSocket.destroyed
                      THEN <<c, [targetSocket EXCEPT !.ended = TRUE]>>
                      ELSE <<c, targetSocket>>)
    /\ UNCHANGED <<phase, reqUrl, head, chains, cRecv, tRecv, timedOut, crashed,
                   dnsQueried, connAttempts,
                   errored, discarded>>

\* the destination half-closes; targetSocket.on('end') runs, then the socket
\* (allowHalfOpen false) ends its own writable side
TargetEnd ==
    /\ phase = "ESTABLISHED" /\ ~crashed
    /\ ~targetSocket.destroyed /\ ~targetSocket.eof
    /\ LET t == [targetSocket EXCEPT !.eof = TRUE, !.ended = TRUE]
       IN  SetSockets(IF ~clientSocket.destroyed
                      THEN <<[clientSocket EXCEPT !.ended = TRUE], t>>
                      ELSE <<clientSocket, t>>)
    /\ UNCHANGED <<phase, reqUrl, head, chains, cRecv, tRecv, timedOut, crashed,
                   dnsQueried, connAttempts,
                   errored, discarded>>

(***************************************************************************)
(* connectViaMultiHop (part_006) and the callback its callers pass.        *)
(***************************************************************************)
\* the hop lists a configuration can hold: distinct hops, at most MaxHops
HopLists == {l \in SeqsUpTo({"hopA", "hopB"}, MaxHops) :
               \A i, j \in 1..Len(l) : i # j => l[i] # l[j]}

MInit ==
    /\ mPc = "call"
    /\ mKind \in {"connect", "request"}
    /\ hops \in HopLists
    /\ firstHop = "none"
    /\ hopSocket = "none"
    /\ callbacks = <<>>
    /\ transports = <<>>
    /\ established = 0
    /\ clientEnded = FALSE

\* the 200 response of completeConnection reaches the client unless the
\* client socket was ended before
Written == IF clientEnded THEN established ELSE established + 1

\* the callback of server.on('connect') (lines 1029-1098) and of
\* server.on('request') (lines 923-993): with a pre-connected socket the
\* CONNECT handler adopts it and completes at once, otherwise it opens a
\* connection; the request handler always creates a new outbound request
Callback(preConnectedSocket) ==
    /\ callbacks' = Append(callbacks, IF preConnectedSocket THEN "hop" ELSE "direct")
    /\ IF mKind = "connect" /\ preConnectedSocket
       THEN /\ transports' = Append(transports, "hop")
            /\ established' = Written
       ELSE /\ transports' = Append(transports, "connecting")
            /\ UNCHANGED established

\* connectViaMultiHop(options, callback) up to its return
connectViaMultiHop ==
    /\ mPc = "call"
    /\ mPc' = "returned"
    /\ IF Len(hops) = 0
       THEN /\ Callback(FALSE)
            /\ UNCHANGED <<firstHop, hopSocket, clientEnded>>
       ELSE \* the random sort can put any hop first
            /\ \E i \in RandomIndex(Len(hops)) : firstHop' = hops[i]
            /\ hopSocket' = "connecting"
            /\ UNCHANGED <<callbacks, transports, established, clientEnded>>
    /\ UNCHANGED <<mKind, hops>>

\* the connect listener of the hop socket: callback(targetOptions, socket)
HopConnected ==
    /\ hopSocket = "connecting"
    /\ hopSocket' = "open"
    /\ Callback(TRUE)
    /\ UNCHANGED <<mPc, mKind, hops, firstHop, clientEnded>>

\* socket.on('error') of the hop socket: callback(options); when the CONNECT
\* handler had adopted the socket, its own error listener runs next and ends
\* the client socket with a 502
HopError ==
    /\ hopSocket \in {"connecting", "open"}
    /\ hopSocket' = "destroyed"
    /\ Callback(FALSE)
    /\ clientEnded' = (clientEnded \/ (mKind = "connect" /\ hopSocket = "open"))
    /\ UNCHANGED <<mPc, mKind, hops, firstHop>>

\* a connection the callback opened is established: the CONNECT handler's
\* completeConnection writes the 200 response
DirectConnected ==
    /\ \E i \in 1..Len(transports) :
         /\ transports[i] = "connecting"
         /\ transports' = [transports EXCEPT ![i] = "open"]
    /\ established' = IF mKind = "connect" THEN Written ELSE established
    /\ UNCHANGED <<mPc, mKind, hops, firstHop, hopSocket, callbacks, clientEnded>>

\* a connection the callback opened fails: targetSocket.on('error') ends
\* the client socket
DirectError ==
    /\ \E i \in 1..Len(transports) :
         /\ transports[i] \in {"connecting", "open"}
         /\ transports' = [transports EXCEPT ![i] = "failed"]
    /\ clientEnded' = (clientEnded \/ mKind = "connect")
    /\ UNCHANGED <<mPc, mKind, hops, firstHop, hopSocket, callbacks, established>>

(***************************************************************************)
(* The early data of a CONNECT session in the three CONNECT handlers:      *)
(* server.on('connect') of part_006, server.on('connect') of the 2.0.0     *)
(* server of part_000 and the CONNECT branch of proxyjoke (part_004).      *)
(* Head bytes are numbered 1..Len(eHead), later bytes follow.              *)
(***************************************************************************)
EInit ==
    /\ ePc = "request"
    /\ eVariant \in {"v3", "v2", "middleware"}
    /\ eHead \in {Bytes(1, h) : h \in 0..MaxHead}
    /\ eSent = 0
    /\ ePending = {}
    /\ eConnected = FALSE
    /\ eOut = <<>>

\* the handler up to its return: net.connect is issued.  The 2.0.0 server
\* declares (req, res, clientSocket, head) while the event passes
\* (req, socket, head): its clientSocket is the head Buffer,
\* clientSocket.setTimeout throws, the catch block throws again at
\* clientSocket.end and the async listener's promise is rejected, which
\* terminates the process or, on older runtimes, only warns
EarlyRequest ==
    /\ ePc = "request"
    /\ ePc' \in (IF eVariant = "v2" THEN {"connecting", "crashed"} ELSE {"connecting"})
    /\ UNCHANGED <<eVariant, eHead, eSent, ePending, eConnected, eOut>>

\* the client sends one more byte; the proxy holds it until the tunnel reads
ClientSends ==
    /\ ePc \in {"connecting", "established"}
    /\ eSent < MaxLater
    /\ eSent' = eSent + 1
    /\ ePending' = ePending \cup {Len(eHead) + eSent + 1}
    /\ UNCHANGED <<ePc, eVariant, eHead, eConnected, eOut>>

\* the connect callback of net.connect.  part_006 and part_000 write the
\* 200 response and `if (head && head.length > 0) targetSocket.write(head)`,
\* where head is undefined in part_000 and targetSocket.pipe(clientSocket)
\* then throws on the Buffer; part_004 writes the 200 response and pipes
Connected ==
    /\ ePc = "connecting"
    /\ eConnected' = TRUE
    /\ CASE eVariant = "v3" ->
              /\ eOut' = IF Len(eHead) > 0 THEN eOut \o eHead ELSE eOut
              /\ ePc' = "established"
         [] eVariant = "v2" ->
              /\ UNCHANGED eOut
              /\ ePc' = "crashed"
         [] eVariant = "middleware" ->
              /\ UNCHANGED eOut
              /\ ePc' = "established"
    /\ UNCHANGED <<eVariant, eHead, eSent, ePending>>

\* the tunnel forwards a held byte: the pipe of part_004 in arrival order,
\* the timers of setupBidirectionalFlow (part_006) in any order
Forward ==
    /\ ePc = "established"
    /\ \E b \in ePending :
         /\ eVariant = "middleware" => \A o \in ePending : b <= o
         /\ eOut' = Append(eOut, b)
         /\ ePending' = ePending \ {b}
    /\ UNCHANGED <<ePc, eVariant, eHead, eSent, eConnected>>

(***************************************************************************)
(* setupWebSocketTunnel: server.on('upgrade') of part_006 and of the 2.0.0 *)
(* server of part_000.                                                     *)
(***************************************************************************)
\* values of the target query parameter; "" stands for a missing one
\* (searchParams.get returns null, which is falsy as well)
UpgradeTargets == {"", "example.com", "http://example.com", "https://example.com",
                   "ws://example.com", "wss://example.com"}

SchemeChars == {"h", "t", "p", "s", "w", "e", "x", "a", "m", "l", "c", "o", "."}

\* new URL(target) without a base succeeds only when target starts with a
\* scheme: a letter, then scheme characters, then ':'
ParsesAsURL(target) ==
    \E i \in 2..Len(target) :
       /\ SubSeq(target, i, i) = ":"
       /\ SubSeq(target, 1, 1) \in SchemeChars \ {"."}
       /\ \A j \in 1..(i - 1) : SubSeq(target, j, j) \in SchemeChars

\* config.websocket.path and String.prototype.startsWith
websocketPath == "/api/stream"
StartsWith(str, prefix) ==
    Len(str) >= Len(prefix) /\ SubSeq(str, 1, Len(prefix)) = prefix

NewUpgradeSocket == [destroyed |-> FALSE, armed |-> FALSE, status |-> <<>>]
NoUpgradeTarget == [state |-> "none", destroyed |-> FALSE, armed |-> FALSE]

WInit ==
    /\ wPc = "upgrade"
    /\ wVariant \in {"v3", "v2"}
    /\ wPath \in {"/api/stream", "/api/streaming", "/chat"}
    /\ wTargetParam \in UpgradeTargets
    /\ wClient = NewUpgradeSocket
    /\ wTarget = NoUpgradeTarget
    /\ wCrashed = FALSE
    /\ wDns = 0
    /\ wConn = 0
    /\ wTimedOut = {}

\* socket.write(status line); socket.destroy()
WriteAndDestroy(sock, code) ==
    [sock EXCEPT !.status = Append(@, code), !.destroyed = TRUE]

\* the catch block: if (!socket.destroyed) { write 500; destroy }
UpgradeCatch(sock) ==
    IF ~sock.destroyed THEN WriteAndDestroy(sock, "500") ELSE sock

\* the handler up to `await resolveHostname(hostname)`
Upgrade ==
    /\ wPc = "upgrade"
    /\ IF ~StartsWith(wPath, websocketPath)
       THEN \* no else branch: the handler returns and leaves the socket alone
            /\ wPc' = "ignored"
            /\ UNCHANGED <<wClient, wDns>>
       ELSE IF wTargetParam = ""
       THEN /\ wClient' = WriteAndDestroy(wClient, "400")
            /\ wPc' = "rejected"
            /\ UNCHANGED wDns
       ELSE IF ~ParsesAsURL(wTargetParam)
       THEN /\ wClient' = UpgradeCatch(wClient)
            /\ wPc' = "rejected"
            /\ UNCHANGED wDns
       ELSE /\ wPc' = "resolving"
            /\ wDns' = wDns + 1
            /\ UNCHANGED wClient
    /\ UNCHANGED <<wVariant, wPath, wTargetParam, wTarget, wCrashed, wConn, wTimedOut>>

\* resolveHostname returned: tls.connect / net.connect, setTimeout on both
\* sockets (part_006 only), the listeners are attached
UpgradeResolved ==
    /\ wPc = "resolving" /\ ~wCrashed
    /\ wPc' = "connecting"
    /\ wConn' = wConn + 1
    /\ wTarget' = [state |-> "connecting", destroyed |-> FALSE, armed |-> wVariant = "v3"]
    /\ wClient' = [wClient EXCEPT !.armed = (wVariant = "v3")]
    /\ UNCHANGED <<wVariant, wPath, wTargetParam, wCrashed, wDns, wTimedOut>>

\* resolveHostname threw: the catch block
UpgradeResolveThrew ==
    /\ wPc = "resolving" /\ ~wCrashed
    /\ wPc' = "failed"
    /\ wClient' = UpgradeCatch(wClient)
    /\ UNCHANGED <<wVariant, wPath, wTargetParam, wTarget, wCrashed, wDns, wConn, wTimedOut>>

\* the connect callback: the 101 handshake is written to the client (a
\* write on a destroyed socket does nothing) and the relay is set up
UpgradeConnected ==
    /\ wPc = "connecting" /\ ~wCrashed
    /\ wTarget.state = "connecting" /\ ~wTarget.destroyed
    /\ wPc' = "established"
    /\ wTarget' = [wTarget EXCEPT !.state = "open"]
    /\ wClient' = IF wClient.destroyed THEN wClient
                  ELSE [wClient EXCEPT !.status = Append(@, "101")]
    /\ UNCHANGED <<wVariant, wPath, wTargetParam, wCrashed, wDns, wConn, wTimedOut>>

\* targetSocket.on('error'): if (!socket.destroyed) socket.destroy()
UpgradeTargetError ==
    /\ ~wCrashed
    /\ wTarget.state # "none" /\ ~wTarget.destroyed
    /\ wTarget' = [wTarget EXCEPT !.destroyed = TRUE]
    /\ wClient' = [wClient EXCEPT !.destroyed = TRUE]
    /\ UNCHANGED <<wPc, wVariant, wPath, wTargetParam, wCrashed, wDns, wConn, wTimedOut>>

\* the client socket raises 'error'; socket.on('error') is attached only
\* after the await: if (!targetSocket.destroyed) targetSocket.destroy()
UpgradeClientError ==
    /\ ~wCrashed
    /\ wPc \in {"resolving", "connecting", "established"}
    /\ ~wClient.destroyed
    /\ wClient' = [wClient EXCEPT !.destroyed = TRUE]
    /\ IF wPc = "resolving"
       THEN wCrashed' = TRUE /\ UNCHANGED wTarget
       ELSE wTarget' = [wTarget EXCEPT !.destroyed = TRUE] /\ UNCHANGED wCrashed
    /\ UNCHANGED <<wPc, wVariant, wPath, wTargetParam, wDns, wConn, wTimedOut>>

\* targetSocket.on('timeout'): if (!targetSocket.destroyed) targetSocket.destroy()
UpgradeTargetTimeout ==
    /\ ~wCrashed
    /\ wTarget.armed /\ ~wTarget.destroyed
    /\ wTarget' = [wTarget EXCEPT !.destroyed = TRUE]
    /\ wTimedOut' = wTimedOut \cup {"target"}
    /\ UNCHANGED <<wPc, wVariant, wPath, wTargetParam, wClient, wCrashed, wDns, wConn>>

\* socket.on('timeout'): if (!socket.destroyed) socket.destroy()
UpgradeClientTimeout ==
    /\ ~wCrashed
    /\ wClient.armed /\ ~wClient.destroyed
    /\ wClient' = [wClient EXCEPT !.destroyed = TRUE]
    /\ wTimedOut' = wTimedOut \cup {"client"}
    /\ UNCHANGED <<wPc, wVariant, wPath, wTargetParam, wTarget, wCrashed, wDns, wConn>>

(***************************************************************************)
(* The circuit breaker of server.on('request') (part_006) and the sockets  *)
(* of the sessions in flight.  Time is counted in units of 12 minutes.     *)
(***************************************************************************)
resetInterval == 5        \* config.circuitBreaker.resetInterval, one hour
jitter == 1               \* jitterFactor * resetInterval

\* twice the values of resetInterval + (Math.random() * jitter - jitter/2)
\* that an elapsed time in whole units can tell apart
ActualResetIntervals == (2 * resetInterval - jitter)..(2 * resetInterval + jitter - 1)

NoRelay == [st |-> "none", protocol |-> "http:", agent |-> 0, socket |-> "none"]

PInit ==
    /\ now = 1
    /\ lastAgentReset = 0
    /\ globalAgent = [http |-> 0, https |-> 0]
    /\ relays = [i \in 1..MaxRelays |-> NoRelay]
    /\ tunnels = {}

\* the sockets of the sessions after the old pools are destroyed
ReplacePoolsDestroyingOld(sessions) ==
    [i \in DOMAIN sessions |->
        IF sessions[i].socket = "none" THEN sessions[i]
        ELSE [sessions[i] EXCEPT !.socket = "closed"]]

\* the sockets of the sessions after `http.globalAgent = new http.Agent(...)`
\* and `https.globalAgent = new https.Agent(...)`: the old agents are only
\* dereferenced, no socket is touched
ReplacePools(sessions) == sessions

TimePasses ==
    /\ now < MaxTime
    /\ now' = now + 1
    /\ UNCHANGED <<lastAgentReset, globalAgent, relays, tunnels>>

\* server.on('request') up to `await resolveHostname`: the circuit breaker
RelayRequest ==
    \E i \in 1..MaxRelays, protocol \in {"http:", "https:"},
       actualResetInterval \in ActualResetIntervals :
       /\ relays[i].st = "none"
       /\ IF lastAgentReset = 0 \/ 2 * (now - lastAgentReset) > actualResetInterval
          THEN /\ globalAgent' = [http |-> globalAgent.http + 1,
                                  https |-> globalAgent.https + 1]
               /\ lastAgentReset' = now
               /\ relays' = [ReplacePools(relays) EXCEPT
                                ![i] = [NoRelay EXCEPT !.st = "RESOLVING",
                                                       !.protocol = protocol]]
          ELSE /\ relays' = [relays EXCEPT
                                ![i] = [NoRelay EXCEPT !.st = "RESOLVING",
                                                       !.protocol = protocol]]
               /\ UNCHANGED <<globalAgent, lastAgentReset>>
       /\ UNCHANGED <<now, tunnels>>

\* protocol.request(finalOptions, ...): the request has no agent option and
\* takes its socket from the global agent of its protocol
RelayIssued ==
    \E i \in 1..MaxRelays :
       /\ relays[i].st = "RESOLVING"
       /\ relays' = [relays EXCEPT
                       ![i] = [@ EXCEPT !.st = "ESTABLISHED", !.socket = "open",
                                        !.agent = IF relays[i].protocol = "https:"
                                                  THEN globalAgent.https
                                                  ELSE globalAgent.http]]
       /\ UNCHANGED <<now, lastAgentReset, globalAgent, tunnels>>

\* the response has been piped to the client: the keep-alive socket goes
\* back to the agent it was taken from
RelayDone ==
    \E i \in 1..MaxRelays :
       /\ relays[i].st = "ESTABLISHED" /\ relays[i].socket = "open"
       /\ relays' = [relays EXCEPT ![i] = [@ EXCEPT !.st = "CLOSED", !.socket = "idle"]]
       /\ UNCHANGED <<now, lastAgentReset, globalAgent, tunnels>>

\* a CONNECT or WebSocket session is established: net.connect / tls.connect
\* sockets, outside the pools
TunnelEstablished ==
    /\ \E kind \in {"CONNECT", "WebSocket"} \ tunnels : tunnels' = tunnels \cup {kind}
    /\ UNCHANGED <<now, lastAgentReset, globalAgent, relays>>

(***************************************************************************)
(* The error responses of the HTTP relay: server.on('request') of part_006 *)
(* and part_000, and superSmartProxy of src/middlewares/proxy.js.  Two     *)
(* requests that fail in the same way are followed side by side.           *)
(***************************************************************************)
FailingRequests == {1, 2}

\* err.message of the errors that reach the handlers
ErrorMessages(kind) ==
    CASE kind = "parse"   -> {"Invalid URL"}
      [] kind = "resolve" -> {"All DoT providers failed", "All DoH providers failed",
                              "queryA ENOTFOUND db.internal"}
      [] kind = "connect" -> {"connect ECONNREFUSED 10.0.0.5:80",
                              "getaddrinfo ENOTFOUND db.internal", "socket hang up"}

XInit ==
    /\ xVariant \in {"v3", "v2", "middleware"}
    /\ xKind \in {"parse", "resolve", "connect"}
    /\ xErr = [i \in FailingRequests |-> "none"]
    /\ xHeadersSent = [i \in FailingRequests |-> FALSE]
    /\ xRes = [i \in FailingRequests |-> <<>>]

\* res.writeHead(502); res.end(`Proxy error: ${err.message}`) of
\* proxyReq.on('error'), res.writeHead(400); res.end(`Bad request: ...`) of
\* the catch block, res.status(500).send(`Proxy error occurred: ...`)
ErrorResponse(variant, kind, message) ==
    CASE variant = "middleware" -> <<500, "Proxy error occurred: " \o message>>
      [] kind = "connect"       -> <<502, "Proxy error: " \o message>>
      [] OTHER                  -> <<400, "Bad request: " \o message>>

\* the response of the destination has begun: res.writeHead(statusCode, ...)
ResponseBegun ==
    /\ xKind = "connect" /\ xVariant # "middleware"
    /\ \E i \in FailingRequests :
         /\ xErr[i] = "none" /\ ~xHeadersSent[i]
         /\ xHeadersSent' = [xHeadersSent EXCEPT ![i] = TRUE]
    /\ UNCHANGED <<xVariant, xKind, xErr, xRes>>

\* the error is thrown or emitted
ErrorRaised ==
    /\ \E i \in FailingRequests, message \in ErrorMessages(xKind) :
         /\ xErr[i] = "none"
         /\ xErr' = [xErr EXCEPT ![i] = message]
    /\ UNCHANGED <<xVariant, xKind, xHeadersSent, xRes>>

\* the catch block or the 'error' listener: if (!res.headersSent) { ... }
ErrorHandled ==
    /\ \E i \in FailingRequests :
         /\ xErr[i] # "none" /\ xRes[i] = <<>> /\ ~xHeadersSent[i]
         /\ xRes' = [xRes EXCEPT ![i] = ErrorResponse(xVariant, xKind, xErr[i])]
         /\ xHeadersSent' = [xHeadersSent EXCEPT ![i] = TRUE]
    /\ UNCHANGED <<xVariant, xKind, xErr>>

(***************************************************************************)
(* The request body and the response body of one HTTP relay request:       *)
(* server.on('request') of part_006 (traffic shaping enabled) and of the   *)
(* 2.0.0 server of part_000.                                               *)
(***************************************************************************)
\* values of the destination's content-encoding header, "none" when absent
ContentEncodings == {"none", "identity", "gzip", "deflate", "br"}

\* the encodings whose body the variant pipes through a zlib decompressor
Decompressed(v) == IF v = "v3" THEN {"gzip", "br", "deflate"} ELSE {"gzip"}

\* the timer that req.on('end') sets, among the chunk numbers 1, 2, ...
EndTimer == 0

\* config.trafficShaping, in ms
delayMin == 10
delayMax == 100
\* the delay argument of the relay's setTimeout calls, for Math.random()
\* returning tenths / 10
RelayDelay(tenths) == (tenths * delayMax) \div 10

BInit ==
    /\ bVariant \in {"v3", "v2"}
    /\ bRecv = 0
    /\ bReqEnd = FALSE
    /\ bTimers = {}
    /\ bDelays = {}
    /\ bOut = <<>>
    /\ bEnded = FALSE
    /\ bLost = {}
    /\ proxyRes \in ContentEncodings
    /\ res = <<>>

\* proxyReq.write(chunk): after end() the write is refused
WriteChunk(n) ==
    IF bEnded THEN bLost' = bLost \cup {n} /\ UNCHANGED bOut
    ELSE bOut' = Append(bOut, n) /\ UNCHANGED bLost

\* req.on('data'): setTimeout(() => proxyReq.write(chunk), random) in
\* part_006, the pipe of part_000 writes at once
RequestData ==
    /\ ~bReqEnd /\ bRecv < MaxChunks
    /\ bRecv' = bRecv + 1
    /\ IF bVariant = "v3"
       THEN /\ bTimers' = bTimers \cup {bRecv + 1}
            /\ \E tenths \in {0, 5, 9} :
                 bDelays' = bDelays \cup {<<bRecv + 1, RelayDelay(tenths)>>}
            /\ UNCHANGED <<bOut, bLost>>
       ELSE WriteChunk(bRecv + 1) /\ UNCHANGED <<bTimers, bDelays>>
    /\ UNCHANGED <<bVariant, bReqEnd, bEnded, proxyRes, res>>

\* req.on('end'): setTimeout(() => proxyReq.end(), random) in part_006, the
\* pipe of part_000 ends the request at once
RequestEnd ==
    /\ ~bReqEnd
    /\ bReqEnd' = TRUE
    /\ IF bVariant = "v3"
       THEN /\ bTimers' = bTimers \cup {EndTimer}
            /\ \E tenths \in {0, 5, 9} :
                 bDelays' = bDelays \cup {<<EndTimer, RelayDelay(tenths)>>}
            /\ UNCHANGED bEnded
       ELSE bEnded' = TRUE /\ UNCHANGED <<bTimers, bDelays>>
    /\ UNCHANGED <<bVariant, bRecv, bOut, bLost, proxyRes, res>>

\* one of the pending timers fires; their delays are independent random
\* numbers below delayMax
TimerFires ==
    /\ \E t \in bTimers :
         /\ bTimers' = bTimers \ {t}
         /\ IF t = EndTimer
            THEN bEnded' = TRUE /\ UNCHANGED <<bOut, bLost>>
            ELSE WriteChunk(t) /\ UNCHANGED bEnded
    /\ UNCHANGED <<bVariant, bRecv, bReqEnd, bDelays, proxyRes, res>>

\* the response callback: res.writeHead(statusCode, responseHeaders) keeps
\* content-encoding, then the body is piped through a decompressor or not
ResponseRelayed ==
    /\ res = <<>>
    /\ res' = [encoding |-> proxyRes,
               body |-> IF proxyRes \in Decompressed(bVariant) THEN "identity"
                        ELSE IF proxyRes = "none" THEN "identity" ELSE proxyRes]
    /\ UNCHANGED <<bVariant, bRecv, bReqEnd, bTimers, bDelays, bOut, bEnded, bLost, proxyRes>>

(***************************************************************************)
(* getTlsOptions (TLS fingerprinting enabled, as configured): the session  *)
(* ticket keys.  Time is counted in units of 100 seconds.                  *)
(***************************************************************************)
\* the 5 minutes of Math.floor(Date.now() / 300000) * 300000
KeyUpdateInterval == 3

sessionKeyUpdateTime(t) == (t \div KeyUpdateInterval) * KeyUpdateInterval

\* sha256(String(sessionKeyUpdateTime) + config.password): a digest that
\* differs whenever its input differs
sessionKeyBase(t, secret) == <<"sha256", sessionKeyUpdateTime(t), secret>>

\* the values crypto.randomBytes can return
RandomBytes == {"r1", "r2"}

\* part_006: Buffer.concat([sessionKeyBase, crypto.randomBytes(16)]);
\* part_000: crypto.randomBytes(48)
TicketKeys(v, t, secret, random) ==
    IF v = "v3" THEN <<sessionKeyBase(t, secret), random>> ELSE <<random>>

KInit ==
    /\ kVariant \in {"v3", "v2"}
    /\ kNow = 1
    /\ password \in {"secret1", "secret2"}
    /\ ticketKeys = <<>>

ClockAdvances ==
    /\ kNow < MaxClock
    /\ kNow' = kNow + 1
    /\ UNCHANGED <<kVariant, password, ticketKeys>>

\* one call of getTlsOptions
getTlsOptions ==
    /\ Len(ticketKeys) < MaxCalls
    /\ \E random \in RandomBytes :
         ticketKeys' = Append(ticketKeys,
                              [at |-> kNow,
                               keys |-> TicketKeys(kVariant, kNow, password, random)])
    /\ UNCHANGED <<kVariant, kNow, password>>

(***************************************************************************)
(* Domain fronting and SNI selection.                                      *)
(***************************************************************************)
\* config.domainFronting.fronts: [pattern, front host]
fronts(v) ==
    IF v = "v3"
    THEN << <<"*.wikipedia.org", "ajax.googleapis.com">>,
            <<"*.blogspot.com", "fonts.googleapis.com">>,
            <<"*.medium.com", "cdnjs.cloudflare.com">>,
            <<"*.facebook.com", "cdn.jsdelivr.net">>,
            <<"*.telegram.org", "code.jquery.com">>,
            <<"*.youtube.com", "static.cloudflareinsights.com">>,
            <<"*.pornhub.com", "unpkg.com">>,
            <<"*.xvideos.com", "stackpath.bootstrapcdn.com">>,
            <<"*.twitter.com", "ajax.aspnetcdn.com">> >>
    ELSE << <<"*.blogspot.com", "ajax.googleapis.com">>,
            <<"*.wikipedia.org", "cdn.jsdelivr.net">>,
            <<"*.telegram.org", "cdnjs.cloudflare.com">>,
            <<"*.medium.com", "static.cloudflareinsights.com">> >>

\* config.domainFronting.defaultFronts
defaultFronts(v) ==
    IF v = "v3"
    THEN <<"ajax.googleapis.com", "cdn.jsdelivr.net", "cdnjs.cloudflare.com",
           "static.cloudflareinsights.com", "fonts.googleapis.com", "code.jquery.com",
           "unpkg.com", "stackpath.bootstrapcdn.com", "ajax.aspnetcdn.com",
           "cdn.statically.io", "d36mpcpuzc4ztk.cloudfront.net">>
    ELSE <<"ajax.googleapis.com", "cdn.jsdelivr.net", "cdnjs.cloudflare.com",
           "static.cloudflareinsights.com", "fonts.googleapis.com",
           "storage.googleapis.com", "cloudfront.net", "akamai.net">>

\* config.sni.commonNames
commonNames ==
    <<"www.microsoft.com", "www.google.com", "www.apple.com", "www.cloudflare.com",
      "www.akamai.com", "www.amazon.com", "www.office.com",
      "d36mpcpuzc4ztk.cloudfront.net", "s3.amazonaws.com">>

\* the frontDomains of getFrontingOptions (first version of part_000)
frontDomains == <<"ajax.googleapis.com", "cdn.jsdelivr.net", "cdnjs.cloudflare.com",
                  "akamai.net">>

\* pattern.replace(/\*/g, '.*')
RECURSIVE ReplaceStar(_)
ReplaceStar(pattern) ==
    IF pattern = "" THEN ""
    ELSE (IF SubSeq(pattern, 1, 1) = "*" THEN ".*" ELSE SubSeq(pattern, 1, 1))
           \o ReplaceStar(SubSeq(pattern, 2, Len(pattern)))

\* the regular expression re matches a prefix of s; in re "." is any
\* character, "c*" any number of c, every other character itself
RECURSIVE MatchHere(_, _)
MatchHere(re, s) ==
    IF re = "" THEN TRUE
    ELSE IF Len(re) >= 2 /\ SubSeq(re, 2, 2) = "*"
    THEN \E k \in 0..Len(s) :
            /\ \A j \in 1..k : SubSeq(re, 1, 1) = "." \/ SubSeq(s, j, j) = SubSeq(re, 1, 1)
            /\ MatchHere(SubSeq(re, 3, Len(re)), SubSeq(s, k + 1, Len(s)))
    ELSE /\ s # ""
         /\ SubSeq(re, 1, 1) = "." \/ SubSeq(re, 1, 1) = SubSeq(s, 1, 1)
         /\ MatchHere(SubSeq(re, 2, Len(re)), SubSeq(s, 2, Len(s)))

\* hostname.match(new RegExp(re)) is not null: re matches somewhere in hostname
Match(hostname, re) ==
    \E i \in 0..Len(hostname) : MatchHere(re, SubSeq(hostname, i + 1, Len(hostname)))

\* hostnames of relayed requests
RelayHostnames == {"en.wikipedia.org", "wikipedia.org", "notwikipedia.org",
                   "my-wikipedia-org.medium.com", "www.youtube.com", "example.com",
                   "ajax.googleapis.com"}

\* every name getFrontingDomain is called with: request hostnames and, through
\* getSNI, front domains
FrontingArguments ==
    RelayHostnames \cup Range(defaultFronts("v3")) \cup Range(defaultFronts("v2"))
        \cup {fronts("v3")[i][2] : i \in 1..Len(fronts("v3"))}
        \cup {fronts("v2")[i][2] : i \in 1..Len(fronts("v2"))}

\* the rules the loop of getFrontingDomain finds matching, per variant and
\* hostname
MatchingRules ==
    [v \in {"v3", "v2"}, hostname \in FrontingArguments |->
        {i \in 1..Len(fronts(v)) : Match(hostname, ReplaceStar(fronts(v)[i][1]))}]

\* the rule the for loop returns from: the first matching one
FirstRule(hits) == CHOOSE i \in hits : \A j \in hits : i <= j

\* getFrontingDomain(hostname): the values it can return
getFrontingDomain(v, hostname) ==
    IF ~frontingEnabled THEN {hostname}
    ELSE LET hits == MatchingRules[v, hostname]
         IN  IF hits # {}
             THEN {fronts(v)[FirstRule(hits)][2]}
             ELSE {defaultFronts(v)[i] : i \in RandomIndex(Len(defaultFronts(v)))}

\* the rule getFrontingDomain(hostname) returns from, 0 when it returns the
\* hostname or a default front
RuleApplied(v, hostname) ==
    IF frontingEnabled /\ MatchingRules[v, hostname] # {}
    THEN FirstRule(MatchingRules[v, hostname]) ELSE 0

\* getSNI(hostname): the values it can return
getSNI(hostname) ==
    IF ~sniEnabled THEN {hostname}
    ELSE UNION {IF front # hostname
                THEN {front}
                ELSE {commonNames[i] : i \in RandomIndex(Len(commonNames))}
                : front \in getFrontingDomain("v3", hostname)}

(***************************************************************************)
(* Header preparation of the HTTP relay.                                   *)
(***************************************************************************)
\* the headers stripped by server.on('request')
DenyList == {"x-forwarded-for", "x-real-ip", "via", "forwarded", "proxy-connection"}

\* header names a client request may carry
ClientHeaderNames == DenyList \cup {"accept", "cookie"}

\* the keys of possibleHeaders in obfuscateRequest
possibleHeaders == {"x-forwarded-for", "x-real-ip", "x-forwarded-proto",
                    "x-requested-with", "dnt", "upgrade-insecure-requests", "te"}

\* the headers obfuscateRequest sets at level >= 2
BrowserHeaders == {"accept", "accept-encoding", "accept-language", "sec-ch-ua",
                   "sec-ch-ua-mobile", "sec-ch-ua-platform", "sec-fetch-dest",
                   "sec-fetch-mode", "sec-fetch-site", "sec-fetch-user"}

\* { ...f, ...g }
Assign(f, g) ==
    [k \in DOMAIN f \cup DOMAIN g |-> IF k \in DOMAIN g THEN g[k] ELSE f[k]]

\* names -> one value
Const(names, v) == [k \in names |-> v]

\* delete headers[h] for every h of names
Delete(f, names) == [k \in DOMAIN f \ names |-> f[k]]

\* obfuscateRequest(req, headers) of part_006; `decoys` is the subset of
\* possibleHeaders that passes the Math.random() > 0.3 test
obfuscateRequest(headers, decoys) ==
    IF ~enableObfuscation THEN headers
    ELSE LET base == Assign(headers, Const({"x-request-id", "cache-control"}, "generated"))
             l2   == IF obfuscationLevel >= 2
                     THEN Assign(base, Const(BrowserHeaders, "generated")) ELSE base
         IN  IF obfuscationLevel >= 3
             THEN Assign(l2, Const(decoys, "decoy"))
             ELSE l2

\* obfuscateRequest(req, headers) of the 2.0.0 server
obfuscateRequestV2(headers) ==
    IF ~enableObfuscation THEN headers
    ELSE LET l1 == IF obfuscationLevel >= 1
                   THEN Assign(headers, Const({"x-request-id", "cache-control", "pragma",
                                               "expires"}, "generated"))
                   ELSE headers
         IN  IF obfuscationLevel >= 2
             THEN Assign(l1, Const({"x-correlation-id", "sec-fetch-site", "sec-fetch-mode",
                                    "sec-fetch-dest", "sec-ch-ua", "accept-language"},
                                   "generated"))
             ELSE l1

HasQuery(url) == \E i \in 1..Len(url) : SubSeq(url, i, i) = "?"

\* req after obfuscateRequest of the 2.0.0 server: at level 2 the url of a
\* GET request gets the tracking parameters appended
TrackedRequest(req, timestamp, nonce) ==
    IF enableObfuscation /\ obfuscationLevel >= 2 /\ req.method = "GET"
    THEN [req EXCEPT !.url = @ \o (IF HasQuery(@) THEN "&" ELSE "?")
                               \o "_=" \o timestamp \o "&_r=" \o nonce]
    ELSE req

\* one call of obfuscateRequest with any configuration
OInit ==
    /\ hPc = "off"
    /\ hVariant \in {"v3", "v2"}
    /\ obfuscationLevel \in 0..3
    /\ enableObfuscation \in BOOLEAN
    /\ reqHeaders = << >>
    /\ parsedUrl = [protocol |-> "http:", hostname |-> "", port |-> ""]
    /\ frontingEnabled = TRUE /\ sniEnabled = TRUE
    /\ outHeaders = << >> /\ frontDomain = "" /\ frontRule = 0
    /\ servername = "none"
    /\ oPc = "call"
    /\ oReq \in [method : {"GET", "POST"}, url : {"/", "/search?q=1"}]
    /\ oHeaders \in UNION {[S -> {"client"}] : S \in SUBSET {"host", "accept", "cookie"}}
    /\ oResult = << >>

\* the call: part_006 leaves req alone, the 2.0.0 server assigns req.url
CallObfuscateRequest ==
    /\ oPc = "call"
    /\ oPc' = "returned"
    /\ \E decoys \in SUBSET possibleHeaders,
          timestamp \in {"1700000000000", "1700000000001"},   \* Date.now()
          nonce \in {"00ff", "ff00"} :            \* crypto.randomBytes(8) in hex
         /\ oResult' = IF hVariant = "v3" THEN obfuscateRequest(oHeaders, decoys)
                                         ELSE obfuscateRequestV2(oHeaders)
         /\ oReq' = IF hVariant = "v3" THEN oReq
                                      ELSE TrackedRequest(oReq, timestamp, nonce)
    /\ UNCHANGED oHeaders

\* parsedUrl.host: the hostname, and the port when the URL names one
Host(url) == IF url.port = "" THEN url.hostname ELSE url.hostname \o ":" \o url.port

\* the requests the handler is started with
RequestInit(variants, names, urls, flags) ==
    /\ hPc = "received"
    /\ hVariant \in variants
    /\ parsedUrl \in urls
    /\ reqHeaders \in UNION {[S -> {"client"}] : S \in SUBSET names}
    /\ obfuscationLevel \in 0..3
    /\ enableObfuscation \in BOOLEAN
    /\ frontingEnabled \in flags
    /\ sniEnabled \in flags
    /\ outHeaders = << >>
    /\ frontDomain = ""
    /\ frontRule = 0
    /\ servername = "none"

\* requests with any client headers, relayed over plain HTTP by part_006 as
\* it is configured
HInit ==
    RequestInit({"v3"}, ClientHeaderNames,
                {[protocol |-> "http:", hostname |-> "example.com", port |-> ""]}, {TRUE})

\* requests to any of the hostnames, over HTTP or HTTPS, in every variant
FrontingInit ==
    RequestInit({"v3", "v2", "v1"}, {"host"},
                [protocol : {"http:", "https:"}, hostname : RelayHostnames,
                 port : {"", "8443"}],
                BOOLEAN)

\* the call of protocol.request: options.headers, the front domain that was
\* determined and options.servername
Send(headers, front, sni) ==
    /\ outHeaders' = headers
    /\ frontDomain' = front
    /\ frontRule' = IF hVariant = "v1" THEN 0 ELSE RuleApplied(hVariant, parsedUrl.hostname)
    /\ servername' = sni

\* part_006, lines 880-918: strip, set host and user-agent
\* (config.rotateUserAgent is true), obfuscate, choose front domain and SNI
PrepareV3 ==
    \E front \in getFrontingDomain("v3", parsedUrl.hostname) :
      \E sni \in IF parsedUrl.protocol = "https:" THEN getSNI(front) ELSE {"none"} :
        \E decoys \in SUBSET possibleHeaders :
          LET stripped   == Delete(reqHeaders, DenyList)
              headers    == Assign(Assign(stripped, Const({"host"}, Host(parsedUrl))),
                                   Const({"user-agent"}, "generated"))
              obfuscated == obfuscateRequest(headers, decoys)
          IN  IF parsedUrl.protocol = "https:"
              THEN Send(Assign(obfuscated, Const({"host"}, Host(parsedUrl))), front, sni)
              ELSE Send(obfuscated, front, sni)

\* part_000, lines 908-946 (2.0.0)
PrepareV2 ==
    \E front \in getFrontingDomain("v2", parsedUrl.hostname) :
         LET stripped   == Delete(reqHeaders, DenyList)
             headers    == Assign(Assign(stripped, Const({"host"}, Host(parsedUrl))),
                                  Const({"user-agent"}, "generated"))
             obfuscated == obfuscateRequestV2(headers)
         IN  IF parsedUrl.protocol = "https:"
             THEN Send(obfuscated, front,
                       IF frontingEnabled THEN front ELSE parsedUrl.hostname)
             ELSE Send(obfuscated, front, "none")

\* part_000, lines 158-185 (first version): getFrontingOptions picks a random
\* front host and headers.host becomes fronting.originalHost
PrepareV1 ==
    LET stripped == Delete(reqHeaders, DenyList)
        headers  == Assign(Assign(stripped, Const({"host"}, Host(parsedUrl))),
                           Const({"user-agent", "accept-language", "cache-control",
                                  "x-request-id"}, "generated"))
    IN  IF parsedUrl.protocol = "https:"
        THEN \E i \in RandomIndex(Len(frontDomains)) :
                Send(Assign(headers, Const({"host"}, parsedUrl.hostname)),
                     frontDomains[i], frontDomains[i])
        ELSE Send(headers, "", "none")

\* server.on('request') from the header preparation to the outbound request
PrepareHeaders ==
    /\ hPc = "received"
    /\ CASE hVariant = "v3" -> PrepareV3
         [] hVariant = "v2" -> PrepareV2
         [] hVariant = "v1" -> PrepareV1
    /\ hPc' = "sent"
    /\ UNCHANGED <<hVariant, parsedUrl, reqHeaders, obfuscationLevel, enableObfuscation,
                   frontingEnabled, sniEnabled>>

(***************************************************************************)
(* Specifications.                                                         *)
(***************************************************************************)
ROff ==
    /\ rVariant = "v3" /\ rHost = "" /\ rPc = "off" /\ rProv = 0 /\ rRetries = 0
    /\ rTried = <<>> /\ rFailed = {} /\ rResult = "PENDING" /\ rStrategy = "none"
    /\ rAnswer = {}

HOff ==
    /\ hPc = "off" /\ hVariant = "v3" /\ reqHeaders = << >> /\ obfuscationLevel = 3
    /\ parsedUrl = [protocol |-> "http:", hostname |-> "", port |-> ""]
    /\ enableObfuscation = TRUE /\ frontingEnabled = TRUE /\ sniEnabled = TRUE
    /\ outHeaders = << >> /\ frontDomain = "" /\ frontRule = 0
    /\ servername = "none"

FOff == fPc = "off" /\ fData = <<>> /\ fChunks = <<>>

MOff ==
    /\ mPc = "off" /\ mKind = "connect" /\ hops = <<>> /\ firstHop = "none"
    /\ hopSocket = "none" /\ callbacks = <<>> /\ transports = <<>> /\ established = 0
    /\ clientEnded = FALSE

EOff ==
    /\ ePc = "off" /\ eVariant = "v3" /\ eHead = <<>> /\ eSent = 0 /\ ePending = {}
    /\ eConnected = FALSE /\ eOut = <<>>

WOff ==
    /\ wPc = "off" /\ wVariant = "v3" /\ wPath = "" /\ wTargetParam = "" /\ wClient = NewUpgradeSocket
    /\ wTarget = NoUpgradeTarget /\ wCrashed = FALSE /\ wDns = 0 /\ wConn = 0
    /\ wTimedOut = {}

POff ==
    /\ now = 0 /\ lastAgentReset = 0 /\ globalAgent = [http |-> 0, https |-> 0]
    /\ relays = <<>> /\ tunnels = {}

XOff ==
    /\ xVariant = "off" /\ xKind = "parse" /\ xErr = <<>> /\ xHeadersSent = <<>>
    /\ xRes = <<>>

BOff ==
    /\ bVariant = "off" /\ bRecv = 0 /\ bReqEnd = FALSE /\ bTimers = {} /\ bOut = <<>>
    /\ bDelays = {}
    /\ bEnded = FALSE /\ bLost = {} /\ proxyRes = "none" /\ res = <<>>

KOff == kVariant = "off" /\ kNow = 0 /\ password = "" /\ ticketKeys = <<>>

OOff ==
    /\ oPc = "off" /\ oReq = [method |-> "GET", url |-> "/"] /\ oHeaders = << >>
    /\ oResult = << >>

(***************************************************************************)
(* The while loop of fragmentData, one iteration per step, for every       *)
(* configured pair 0 <= minSize <= maxSize.  Sizes are counted in bytes.   *)
(***************************************************************************)
MaxSize == 3
MaxData == 4

\* Math.floor(Math.random() * (maxSize - minSize) + minSize)
chunkSize(min, max) == IF max > min THEN min..(max - 1) ELSE {min}

LInit ==
    /\ lPc = "loop"
    /\ lMin \in 0..MaxSize
    /\ lMax \in lMin..MaxSize
    /\ lData \in 0..MaxData
    /\ lOffset = 0
    /\ lChunks = <<>>

\* one pass through the body of `while (offset < data.length)`; the model
\* follows the loop for at most MaxData + 1 passes
LoopBody ==
    /\ lPc = "loop" /\ lOffset < lData
    /\ Len(lChunks) <= MaxData
    /\ \E size \in chunkSize(lMin, lMax) :
         LET end == IF lOffset + size < lData THEN lOffset + size ELSE lData
         IN  /\ lChunks' = Append(lChunks, end - lOffset)
             /\ lOffset' = end
    /\ UNCHANGED <<lPc, lMin, lMax, lData>>

\* the loop condition fails: return chunks
LoopReturn ==
    /\ lPc = "loop" /\ ~(lOffset < lData)
    /\ lPc' = "returned"
    /\ UNCHANGED <<lMin, lMax, lData, lOffset, lChunks>>

LOff ==
    /\ lPc = "off" /\ lMin = 0 /\ lMax = 0 /\ lData = 0 /\ lOffset = 0 /\ lChunks = <<>>

(***************************************************************************)
(* sockProxy.js: one accepted connection `ws` and its `targetWs`.          *)
(***************************************************************************)
MaxMessages == 3

SInit ==
    /\ sClient = "OPEN"
    /\ sTarget = "CONNECTING"
    /\ sSent = 0 /\ sRecv = 0
    /\ sToTarget = <<>> /\ sToClient = <<>>

\* ws.close() / targetWs.close(): starts the closing handshake of a socket
\* that is not yet closing
Close(readyState) ==
    IF readyState \in {"CONNECTING", "OPEN"} THEN "CLOSING" ELSE readyState

\* the handshake with the target completes
TargetOpen ==
    /\ sTarget = "CONNECTING"
    /\ sTarget' = "OPEN"
    /\ UNCHANGED <<sClient, sSent, sRecv, sToTarget, sToClient>>

\* ws.on('message'): forwarded only if targetWs.readyState === WebSocket.OPEN
ClientMessage ==
    /\ sClient = "OPEN" /\ sSent < MaxMessages
    /\ sSent' = sSent + 1
    /\ sToTarget' = IF sTarget = "OPEN" THEN Append(sToTarget, sSent + 1) ELSE sToTarget
    /\ UNCHANGED <<sClient, sTarget, sRecv, sToClient>>

\* targetWs.on('message'): forwarded only if ws.readyState === WebSocket.OPEN
TargetMessage ==
    /\ sTarget = "OPEN" /\ sRecv < MaxMessages
    /\ sRecv' = sRecv + 1
    /\ sToClient' = IF sClient = "OPEN" THEN Append(sToClient, sRecv + 1) ELSE sToClient
    /\ UNCHANGED <<sClient, sTarget, sSent, sToTarget>>

\* targetWs.on('error'): ws.close(1011, 'Target connection failed')
TargetWsError ==
    /\ sTarget \in {"CONNECTING", "OPEN"}
    /\ sTarget' = "CLOSING"
    /\ sClient' = Close(sClient)
    /\ UNCHANGED <<sSent, sRecv, sToTarget, sToClient>>

\* ws.on('close'): targetWs.close()
ClientClose ==
    /\ sClient # "CLOSED"
    /\ sClient' = "CLOSED"
    /\ sTarget' = Close(sTarget)
    /\ UNCHANGED <<sSent, sRecv, sToTarget, sToClient>>

\* targetWs.on('close'): ws.close()
TargetClose ==
    /\ sTarget # "CLOSED"
    /\ sTarget' = "CLOSED"
    /\ sClient' = Close(sClient)
    /\ UNCHANGED <<sSent, sRecv, sToTarget, sToClient>>

SOff ==
    /\ sClient = "off" /\ sTarget = "off" /\ sSent = 0 /\ sRecv = 0
    /\ sToTarget = <<>> /\ sToClient = <<>>

(***************************************************************************)
(* resolveHostname of part_009: resolver.resolve4, then one DoH request.   *)
(***************************************************************************)
NInit ==
    /\ nPc = "dns"
    /\ nHost \in Hostnames \cup {"example.com", "cdn.example.net"}
    /\ nDns = <<>> /\ nDoh = <<>>
    /\ nResult = "PENDING"

\* `await resolver.resolve4(hostname)` settles: return addresses[0], or the
\* inner catch issues the DoH request
FastResolve4 ==
    /\ nPc = "dns"
    /\ \E resp \in Resolve4Responses :
         /\ nDns' = resp
         /\ IF resp.ok
            THEN nResult' = resp.addresses[1] /\ nPc' = "done"
            ELSE nPc' = "doh" /\ UNCHANGED nResult
    /\ UNCHANGED <<nHost, nDoh>>

\* the promise of the inner catch settles.  It is returned without await,
\* so the async function adopts it after the try statement has been left:
\* its rejection rejects resolveHostname and never enters the outer catch
\* with its `return hostname`
FastDoh ==
    /\ nPc = "doh"
    /\ \E resp \in DohResponses :
         /\ nDoh' = resp
         /\ LET vals == IF resp.ok THEN DohParseV2(resp.Answer) ELSE {}
            IN  IF vals # {} THEN nResult' \in vals ELSE nResult' = "THROW"
    /\ nPc' = "done"
    /\ UNCHANGED <<nHost, nDns>>

NOff ==
    /\ nPc = "off" /\ nHost = "" /\ nDns = <<>> /\ nDoh = <<>> /\ nResult = "PENDING"

\* the resolver chain on its own
ResolveNext ==
    \/ DohAttempt /\ UNCHANGED exceptResolve
    \/ DnsAttempt /\ UNCHANGED exceptResolve
    \/ DotAttempt /\ UNCHANGED exceptResolve
    \/ StaticFallback /\ UNCHANGED exceptResolve
    \/ Rethrow /\ UNCHANGED exceptResolve
ResolveInit == RInit /\ TInit /\ HOff /\ FOff /\ MOff /\ EOff /\ WOff /\ POff /\ XOff /\ BOff /\ KOff
    /\ OOff /\ LOff /\ SOff /\ NOff
SpecResolve == ResolveInit /\ [][ResolveNext]_vars
\* every https.get of dnsOverHttps settles: with an answer, with 'error', or
\* with the 'timeout' its `timeout: 5000` option raises
SpecResolveFair == SpecResolve /\ WF_vars(DohAttempt /\ UNCHANGED exceptResolve)

\* one CONNECT session
TunnelNext ==
    \/ ConnectRequest /\ UNCHANGED exceptTunnel
    \/ ResolveReturned /\ UNCHANGED exceptTunnel
    \/ ResolveThrew /\ UNCHANGED exceptTunnel
    \/ completeConnection /\ UNCHANGED exceptTunnel
    \/ ClientData /\ UNCHANGED exceptTunnel
    \/ TargetData /\ UNCHANGED exceptTunnel
    \/ sendNextChunk /\ UNCHANGED exceptTunnel
    \/ Tick /\ UNCHANGED exceptTunnel
    \/ TargetTimeout /\ UNCHANGED exceptTunnel
    \/ ClientTimeout /\ UNCHANGED exceptTunnel
    \/ ClientError /\ UNCHANGED exceptTunnel
    \/ TargetError /\ UNCHANGED exceptTunnel
    \/ ClientEnd /\ UNCHANGED exceptTunnel
    \/ TargetEnd /\ UNCHANGED exceptTunnel
TunnelInit == ROff /\ TInit /\ HOff /\ FOff /\ MOff /\ EOff /\ WOff /\ POff /\ XOff /\ BOff /\ KOff
    /\ OOff /\ LOff /\ SOff /\ NOff
SpecTunnel == TunnelInit /\ [][TunnelNext]_vars

\* one CONNECT session in which timers fire and name resolution completes
SpecTunnelFair ==
    /\ SpecTunnel
    /\ WF_tvars(Tick) /\ WF_tvars(sendNextChunk)
    /\ WF_tvars(TargetTimeout) /\ WF_tvars(ClientTimeout)
    /\ WF_tvars(ResolveReturned \/ ResolveThrew)

\* the header preparation of one relayed request
HeadersNext == PrepareHeaders /\ UNCHANGED exceptRequest
HeadersInit == ROff /\ TInit /\ HInit /\ FOff /\ MOff /\ EOff /\ WOff /\ POff /\ XOff /\ BOff /\ KOff
    /\ OOff /\ LOff /\ SOff /\ NOff
SpecHeaders == HeadersInit /\ [][HeadersNext]_vars

\* the fronting and SNI selection of one relayed request, in every variant
RelayInit == ROff /\ TInit /\ FrontingInit /\ FOff /\ MOff /\ EOff /\ WOff /\ POff /\ XOff /\ BOff /\ KOff
    /\ OOff /\ LOff /\ SOff /\ NOff
SpecRelay == RelayInit /\ [][HeadersNext]_vars

\* fragmentData applied to one buffer
FragmentNext == Fragment /\ UNCHANGED exceptFragment
FragmentInit == ROff /\ TInit /\ HOff /\ FInit /\ MOff /\ EOff /\ WOff /\ POff /\ XOff /\ BOff /\ KOff
    /\ OOff /\ LOff /\ SOff /\ NOff
SpecFragment == FragmentInit /\ [][FragmentNext]_vars

\* one call of connectViaMultiHop
MultiHopNext ==
    \/ connectViaMultiHop /\ UNCHANGED exceptMultiHop
    \/ HopConnected /\ UNCHANGED exceptMultiHop
    \/ HopError /\ UNCHANGED exceptMultiHop
    \/ DirectConnected /\ UNCHANGED exceptMultiHop
    \/ DirectError /\ UNCHANGED exceptMultiHop
MultiHopInit == ROff /\ TInit /\ HOff /\ FOff /\ MInit /\ EOff /\ WOff /\ POff /\ XOff /\ BOff /\ KOff
    /\ OOff /\ LOff /\ SOff /\ NOff
SpecMultiHop == MultiHopInit /\ [][MultiHopNext]_vars

\* the early data of one CONNECT session
EarlyNext ==
    \/ EarlyRequest /\ UNCHANGED exceptEarly
    \/ ClientSends /\ UNCHANGED exceptEarly
    \/ Connected /\ UNCHANGED exceptEarly
    \/ Forward /\ UNCHANGED exceptEarly
EarlyInit == ROff /\ TInit /\ HOff /\ FOff /\ MOff /\ EInit /\ WOff /\ POff /\ XOff /\ BOff /\ KOff
    /\ OOff /\ LOff /\ SOff /\ NOff
SpecEarlyData == EarlyInit /\ [][EarlyNext]_vars

\* one WebSocket tunnel session
WebSocketNext ==
    \/ Upgrade /\ UNCHANGED exceptWebSocket
    \/ UpgradeResolved /\ UNCHANGED exceptWebSocket
    \/ UpgradeResolveThrew /\ UNCHANGED exceptWebSocket
    \/ UpgradeConnected /\ UNCHANGED exceptWebSocket
    \/ UpgradeTargetError /\ UNCHANGED exceptWebSocket
    \/ UpgradeClientError /\ UNCHANGED exceptWebSocket
    \/ UpgradeTargetTimeout /\ UNCHANGED exceptWebSocket
    \/ UpgradeClientTimeout /\ UNCHANGED exceptWebSocket
WebSocketInit == ROff /\ TInit /\ HOff /\ FOff /\ MOff /\ EOff /\ WInit /\ POff /\ XOff /\ BOff /\ KOff
    /\ OOff /\ LOff /\ SOff /\ NOff
SpecWebSocket == WebSocketInit /\ [][WebSocketNext]_vars

\* the circuit breaker among sessions in flight
PoolsNext ==
    \/ TimePasses /\ UNCHANGED exceptPools
    \/ RelayRequest /\ UNCHANGED exceptPools
    \/ RelayIssued /\ UNCHANGED exceptPools
    \/ RelayDone /\ UNCHANGED exceptPools
    \/ TunnelEstablished /\ UNCHANGED exceptPools
PoolsInit == ROff /\ TInit /\ HOff /\ FOff /\ MOff /\ EOff /\ WOff /\ PInit /\ XOff /\ BOff /\ KOff
    /\ OOff /\ LOff /\ SOff /\ NOff
SpecPools == PoolsInit /\ [][PoolsNext]_vars

\* two failing relay requests
ErrorsNext ==
    \/ ResponseBegun /\ UNCHANGED exceptErrors
    \/ ErrorRaised /\ UNCHANGED exceptErrors
    \/ ErrorHandled /\ UNCHANGED exceptErrors
ErrorsInit == ROff /\ TInit /\ HOff /\ FOff /\ MOff /\ EOff /\ WOff /\ POff /\ XInit /\ BOff /\ KOff
    /\ OOff /\ LOff /\ SOff /\ NOff
SpecErrors == ErrorsInit /\ [][ErrorsNext]_vars

\* the bodies of one relayed request
BodiesNext ==
    \/ RequestData /\ UNCHANGED exceptBodies
    \/ RequestEnd /\ UNCHANGED exceptBodies
    \/ TimerFires /\ UNCHANGED exceptBodies
    \/ ResponseRelayed /\ UNCHANGED exceptBodies
BodiesInit ==
    ROff /\ TInit /\ HOff /\ FOff /\ MOff /\ EOff /\ WOff /\ POff /\ XOff /\ BInit /\ KOff
    /\ OOff /\ LOff /\ SOff /\ NOff
SpecBodies == BodiesInit /\ [][BodiesNext]_vars

\* calls of getTlsOptions over time
TlsNext ==
    \/ ClockAdvances /\ UNCHANGED exceptTls
    \/ getTlsOptions /\ UNCHANGED exceptTls
TlsInit ==
    ROff /\ TInit /\ HOff /\ FOff /\ MOff /\ EOff /\ WOff /\ POff /\ XOff /\ BOff /\ KInit
    /\ OOff /\ LOff /\ SOff /\ NOff
SpecTls == TlsInit /\ [][TlsNext]_vars

\* one call of obfuscateRequest
ObfuscateNext == CallObfuscateRequest /\ UNCHANGED exceptObfuscate
ObfuscateInit ==
    ROff /\ TInit /\ FOff /\ MOff /\ EOff /\ WOff /\ POff /\ XOff /\ BOff /\ KOff /\ OInit
    /\ LOff /\ SOff /\ NOff
SpecObfuscate == ObfuscateInit /\ [][ObfuscateNext]_vars

\* the loop of one fragmentData call
LoopNext ==
    \/ LoopBody /\ UNCHANGED exceptLoop
    \/ LoopReturn /\ UNCHANGED exceptLoop
LoopInit ==
    ROff /\ TInit /\ HOff /\ FOff /\ MOff /\ EOff /\ WOff /\ POff /\ XOff /\ BOff /\ KOff
    /\ OOff /\ LInit /\ SOff /\ NOff
SpecLoop == LoopInit /\ [][LoopNext]_vars

\* one connection of sockProxy.js
SockNext ==
    \/ TargetOpen /\ UNCHANGED exceptSock
    \/ ClientMessage /\ UNCHANGED exceptSock
    \/ TargetMessage /\ UNCHANGED exceptSock
    \/ TargetWsError /\ UNCHANGED exceptSock
    \/ ClientClose /\ UNCHANGED exceptSock
    \/ TargetClose /\ UNCHANGED exceptSock
SockInit ==
    ROff /\ TInit /\ HOff /\ FOff /\ MOff /\ EOff /\ WOff /\ POff /\ XOff /\ BOff /\ KOff
    /\ OOff /\ LOff /\ SInit /\ NOff
SpecSock == SockInit /\ [][SockNext]_vars

\* one call of resolveHostname of part_009
FastNext ==
    \/ FastResolve4 /\ UNCHANGED exceptFast
    \/ FastDoh /\ UNCHANGED exceptFast
FastInit ==
    ROff /\ TInit /\ HOff /\ FOff /\ MOff /\ EOff /\ WOff /\ POff /\ XOff /\ BOff /\ KOff
    /\ OOff /\ LOff /\ SOff /\ NInit
SpecFast == FastInit /\ [][FastNext]_vars

(***************************************************************************)
(* Properties.                                                             *)
(***************************************************************************)

\* C1: in each direction of an established tunnel the bytes written to the
\* receiving socket are the bytes received from the sender, in order: the
\* i-th byte written is the i-th byte of the stream
ByteOrderPreserved ==
    /\ \A i \in 1..Len(targetSocket.out) : targetSocket.out[i] = i
    /\ \A i \in 1..Len(clientSocket.out) : clientSocket.out[i] = i

\* C2: once the idle timer of either socket of an established tunnel has
\* fired, both sockets are destroyed
TimeoutDestroysBoth ==
    (\E e \in timedOut : e.phase = "ESTABLISHED") =>
        clientSocket.destroyed /\ targetSocket.destroyed

\* C3: every CONNECT session eventually has both sockets closed (a crashed
\* process has closed them too)
BothClosed ==
    \/ crashed
    \/ /\ clientSocket.destroyed
       /\ targetSocket.state = "none" \/ targetSocket.destroyed
SessionEventuallyClosed == (phase # "IDLE") ~> BothClosed

\* C4: the outbound request of the HTTP relay carries no deny-listed header
NoDenyListedHeaderSent ==
    hPc = "sent" => DOMAIN outHeaders \cap DenyList = {}

\* a CONNECT target of the form host or host:port
WellFormedTarget(url) ==
    /\ Len(url) \in {1, 3}
    /\ url[1] # ":"
    /\ Len(url) = 3 => url[2] = ":" /\ parseInt(url[3]) # NaN

\* C5: a CONNECT whose target is not host:port is answered with a 400 status
\* line at once, and no name resolution and no connection is made for it
MalformedTargetRejected ==
    (phase # "IDLE" /\ ~WellFormedTarget(reqUrl)) =>
        /\ clientSocket.status = <<"400">>
        /\ dnsQueried = {}
        /\ connAttempts = 0

\* C6: when resolution has failed, or the destination connection has failed
\* or timed out before establishment, a client that is still connected has
\* been sent 502 Bad Gateway (and no 200) and its socket has been ended
FailedBeforeEstablished ==
    \/ phase = "FAILED"
    \/ phase = "CONNECTING" /\ targetSocket.destroyed
PreEstablishFailureGets502 ==
    (FailedBeforeEstablished /\ ~clientSocket.destroyed) =>
        clientSocket.status = <<"502">> /\ clientSocket.ended

\* C7: a client abort is handled by the session in every phase: no 'error'
\* event of the client socket is emitted while no listener is attached
ClientAbortHandled == ~crashed

\* C8: when resolveHostname completes it has returned a value that is neither
\* undefined nor empty, or it has thrown, and it has thrown exactly when
\* every strategy of the chain failed
Strategies(v) == IF v = "v3" THEN {"doh", "dns", "dot", "static"}
                 ELSE {"doh", "dns", "dot"}
ReturnsOrThrows ==
    rPc = "done" =>
        /\ rResult \notin {"PENDING", "UNDEFINED", ""}
        /\ (rResult = "THROW") <=> (rFailed = Strategies(rVariant))
\* C9: the returned address is one of the candidates that the succeeding
\* strategy's answer (or the static table entry) gave for the hostname
ResultFromAnswer ==
    (rPc = "done" /\ rResult # "THROW") => rResult \in {r.data : r \in rAnswer}

\* C10: a returned value is a valid IPv4 address, and a value returned by
\* the DoH strategy is the data of an A record of the answer
ResultIsIPv4 ==
    (rPc = "done" /\ rResult # "THROW") =>
        /\ IsIPv4(rResult)
        /\ rStrategy = "doh" => [type |-> 1, data |-> rResult] \in rAnswer

\* s is an initial segment of t
IsPrefix(s, t) == Len(s) <= Len(t) /\ \A i \in 1..Len(s) : s[i] = t[i]

\* every strategy but the last attempted one has failed, and a thrown error
\* means the whole chain `order` was attempted
ChainFollows(order) ==
    /\ IsPrefix(rTried, order)
    /\ \A i \in 1..Len(rTried) : \A j \in 1..(i - 1) : rTried[j] \in rFailed
    /\ rResult = "THROW" => rTried = order

\* C11 (as stated): the strategies are attempted in the order recursive
\* resolvers, DNS-over-HTTPS, DNS-over-TLS, static table, each only after every
\* earlier one failed, and a failure never ends the chain early
SpecifiedStrategyOrder == ChainFollows(<<"dns", "doh", "dot", "static">>)

\* C11 (amended): the 3.0.0 server attempts DNS-over-HTTPS, the recursive
\* resolvers, DNS-over-TLS and the static table in that order, the 2.0.0
\* server the recursive resolvers, DNS-over-HTTPS and DNS-over-TLS (it has no
\* static table); a strategy is attempted only after every earlier one failed
\* and the chain throws only after its last strategy failed
CodedStrategyOrder ==
    ChainFollows(IF rVariant = "v3" THEN <<"doh", "dns", "dot", "static">>
                 ELSE <<"dns", "doh", "dot">>)
StaticTableReachedLast ==
    rVariant = "v3" /\ rTried = <<"doh", "dns", "dot", "static">> /\ rPc = "done"

\* the string s ends with suffix
EndsWith(s, suffix) ==
    Len(s) >= Len(suffix) /\ SubSeq(s, Len(s) - Len(suffix) + 1, Len(s)) = suffix

\* hostname matches the glob pattern "*<suffix>": some non-empty prefix
\* followed by the literal suffix
GlobMatch(pattern, hostname) ==
    LET suffix == SubSeq(pattern, 2, Len(pattern))
    IN  Len(hostname) > Len(suffix) /\ EndsWith(hostname, suffix)

\* the fronting rules whose glob the hostname matches
GlobRules(v, hostname) ==
    {i \in 1..Len(fronts(v)) : GlobMatch(fronts(v)[i][1], hostname)}

\* an HTTPS request of the 3.0.0 relay has been sent
HttpsSent == hPc = "sent" /\ hVariant = "v3" /\ parsedUrl.protocol = "https:"

\* C12: the SNI of an HTTPS relay request is the cover hostname of the first
\* fronting rule matching the target hostname when one matches, and the
\* target hostname itself when fronting is disabled
SniIsCoverHostname ==
    HttpsSent =>
        /\ (frontingEnabled /\ GlobRules("v3", parsedUrl.hostname) # {}) =>
               servername = fronts("v3")[FirstRule(GlobRules("v3", parsedUrl.hostname))][2]
        /\ ~frontingEnabled => servername = parsedUrl.hostname

\* getFrontingDomain has run with fronting enabled
Fronted == hPc = "sent" /\ hVariant \in {"v3", "v2"} /\ frontingEnabled

\* C13: for a hostname that matches a rule, getFrontingDomain returns from
\* the first rule in list order whose pattern the hostname matches, with that
\* rule's cover hostname, and not with a member of the default pool
FirstMatchingRuleWins ==
    (Fronted /\ GlobRules(hVariant, parsedUrl.hostname) # {}) =>
        /\ frontRule = FirstRule(GlobRules(hVariant, parsedUrl.hostname))
        /\ frontDomain = fronts(hVariant)[frontRule][2]

\* C14: getFrontingDomain returns from a rule only for a hostname that
\* matches that rule's glob; a hostname matching no glob is served from the
\* default pool
RuleOnlyForGlobMatch ==
    Fronted =>
        /\ frontRule # 0 => GlobMatch(fronts(hVariant)[frontRule][1], parsedUrl.hostname)
        /\ GlobRules(hVariant, parsedUrl.hostname) = {} =>
               frontRule = 0 /\ frontDomain \in Range(defaultFronts(hVariant))

\* C15: a fronted HTTPS request carries the real target host of the request
\* in its Host header, at every obfuscation level, and the cover hostname as
\* its SNI
HostHeaderKept ==
    (hPc = "sent" /\ parsedUrl.protocol = "https:"
        /\ (hVariant = "v1" \/ frontingEnabled)) =>
        /\ "host" \in DOMAIN outHeaders
        /\ outHeaders["host"] = Host(parsedUrl)
        /\ servername = frontDomain

\* chunks[1] \o chunks[2] \o ...
RECURSIVE Concat(_)
Concat(chunks) == IF chunks = <<>> THEN <<>> ELSE Head(chunks) \o Concat(Tail(chunks))

\* C16: the chunks fragmentData returns are consecutive slices of the buffer
\* in order: their concatenation is the buffer, also for the empty buffer and
\* for buffers shorter than minSize
FragmentsConcatToInput == fPc = "returned" => Concat(fChunks) = fData
ShortBufferFragmented ==
    fPc = "returned" /\ Len(fData) > 0 /\ Len(fData) < minSize /\ fChunks # <<>>

\* C17: every chunk but the last has a size in [minSize, maxSize], and the
\* last chunk is not larger than maxSize
ChunkSizesWithinBounds ==
    fPc = "returned" =>
        \A i \in 1..Len(fChunks) :
            /\ Len(fChunks[i]) <= maxSize
            /\ i < Len(fChunks) => Len(fChunks[i]) >= minSize
RemainderChunkReturned ==
    /\ fPc = "returned" /\ Len(fChunks) >= 2
    /\ Len(fChunks[Len(fChunks)]) < minSize
    /\ Len(fData) > maxSize

\* C18: data is dropped because its receiving socket is unwritable only
\* together with an error raised for the session, never silently
NoSilentDiscard == discarded # {} => errored

\* C19: a session's connection callback is invoked at most once, so the
\* session opens at most one destination transport and sends at most one
\* establishment response
CallbackAtMostOnce ==
    Len(callbacks) <= 1 /\ Len(transports) <= 1 /\ established <= 1

\* C20: nothing is written to the destination before its connection
\* succeeded, and once it succeeded the head buffer is what the destination
\* socket was written first, before any byte the client sent later
EarlyDataWrittenFirst ==
    /\ ~eConnected => eOut = <<>>
    /\ eConnected => IsPrefix(eHead, eOut)

\* C21: the step in which one socket of the tunnel signals end-of-stream and
\* the other socket is end-written leaves no chunk received from the ended
\* side waiting on a jitter timer: every such byte was written before
EndWrittenAfterDrain ==
    [][/\ (~clientSocket.eof /\ clientSocket'.eof /\
           ~targetSocket.ended /\ targetSocket'.ended)
            => \A ch \in chains : ch.dir # "c2t"
       /\ (~targetSocket.eof /\ targetSocket'.eof /\
           ~clientSocket.ended /\ clientSocket'.ended)
            => \A ch \in chains : ch.dir # "t2c"]_vars

\* C22: when a socket of an established CONNECT tunnel raises an error, the
\* session eventually has both of its sockets closed or destroyed
ErrorClosesBoth ==
    []((phase = "ESTABLISHED" /\ ~errored) => []((errored /\ ~crashed) => <>BothClosed))

\* C23: when resolution has failed, or the destination connection has failed
\* or timed out before establishment, the client of a WebSocket tunnel has
\* been sent 502 Bad Gateway and its socket is released; and once an idle
\* timer has fired both sockets are destroyed
UpgradeFailedBeforeEstablished ==
    \/ wPc = "failed"
    \/ wPc = "connecting" /\ wTarget.destroyed
UpgradeFailureGets502 ==
    /\ UpgradeFailedBeforeEstablished =>
          wClient.status = <<"502">> /\ wClient.destroyed
    /\ wTimedOut # {} => wClient.destroyed /\ wTarget.destroyed

\* C24: the step that replaces the connection pools leaves every relay
\* session that has a socket, and every tunnel, as it was; established
\* relays have an open socket; a relay keeps the pool it was issued on
PoolRotationKeepsSessions ==
    [][/\ globalAgent' # globalAgent =>
            /\ \A i \in 1..MaxRelays : relays[i].socket # "none" => relays'[i] = relays[i]
            /\ tunnels' = tunnels
       /\ \A i \in 1..MaxRelays :
            /\ relays'[i].st = "ESTABLISHED" => relays'[i].socket = "open"
            /\ relays[i].st = "ESTABLISHED" => relays'[i].agent = relays[i].agent]_vars
\* a relay is established on a pool that has been replaced since, beside an
\* established tunnel
RotatedDuringRelay ==
    /\ \E i \in 1..MaxRelays :
         /\ relays[i].st = "ESTABLISHED" /\ relays[i].socket = "open"
         /\ relays[i].agent < globalAgent.http
    /\ \E j \in 1..MaxRelays : relays[j].st = "ESTABLISHED" /\ relays[j].agent = globalAgent.http
    /\ tunnels # {}

\* C25: a WebSocket upgrade whose target parameter is missing or is not a
\* valid URL is answered with status 400, and no name resolution and no
\* destination connection is made for it
UpgradeMalformedRejected ==
    (wPc \notin {"off", "upgrade"} /\ (wTargetParam = "" \/ ~ParsesAsURL(wTargetParam))) =>
        /\ wClient.status = <<"400">>
        /\ wDns = 0
        /\ wConn = 0

\* C26: two requests that fail in the same way and differ only in the
\* internal error receive the same error response (status and body)
ErrorResponseIndependent ==
    \A i, j \in DOMAIN xRes : (xRes[i] # <<>> /\ xRes[j] # <<>>) => xRes[i] = xRes[j]

\* C27: the content-encoding header delivered to the client names the
\* coding of the body delivered with it (no header means identity)
ContentEncodingDescribesBody ==
    res # <<>> =>
        res.body = (IF res.encoding = "none" THEN "identity" ELSE res.encoding)

\* C28: the chunks written to the outbound request are the chunks received,
\* in order, none is refused, and the request is ended only after the last
\* chunk was written
RequestBodyUnmodified ==
    /\ \A i \in 1..Len(bOut) : bOut[i] = i
    /\ bLost = {}
    /\ bEnded => Len(bOut) = bRecv

\* C29: two calls of getTlsOptions in the same 5-minute bucket (and with the
\* same secret) yield the same session ticket keys
TicketKeysPerBucket ==
    \A i, j \in 1..Len(ticketKeys) :
        sessionKeyUpdateTime(ticketKeys[i].at) = sessionKeyUpdateTime(ticketKeys[j].at)
            => ticketKeys[i].keys = ticketKeys[j].keys

\* C30: a call of obfuscateRequest leaves its arguments, the request and
\* the headers object, as they were
ArgumentsUnchanged ==
    [][oReq' = oReq /\ oHeaders' = oHeaders]_vars

\* C31: a jitter timer that fires (its chain leaves `chains` or gets shorter)
\* writes its chunk only to a socket that is neither ended nor destroyed
NoWriteAfterTeardown ==
    [][\A ch \in chains \ chains' :
          LET receiver == IF ch.dir = "c2t" THEN targetSocket ELSE clientSocket
          IN  ~receiver.ended /\ ~receiver.destroyed]_vars

\* C35: no client socket is written both the 200 Connection Established and
\* the 502 Bad Gateway status line
No502AfterEstablished ==
    ~({"200", "502"} \subseteq Range(clientSocket.status))

\* C34: a request of the server.on('request') handlers that fails in name
\* resolution or in the destination connection is not answered with 400
Only400ForMalformed ==
    (xVariant \in {"v3", "v2"} /\ xKind # "parse") =>
        \A i \in DOMAIN xRes : xRes[i] # <<>> => xRes[i][1] # 400

\* C32: dnsOverHttps of part_006 makes at most 3 requests to a provider before
\* it moves to the next one, returns at the first answer, throws only after
\* the sixth provider failed its third request, and always leaves its loop
DohRequestsMade == 3 * (rProv - 1) + (3 - rRetries)
RelayDelaysInRange ==
    \A d \in bDelays : d[2] \in delayMin..delayMax

\* C36: once the upgrade handler has finished with a request (rejected it,
\* failed, ignored it or established the relay), the upgraded socket has been
\* written a response or has been destroyed
UpgradeAnswered ==
    wPc \in {"rejected", "failed", "ignored", "established"} =>
        (wClient.status # <<>> \/ wClient.destroyed)

\* C37: every pass through the loop of fragmentData moves the offset forward
\* and pushes a non-empty chunk, for every pair 0 <= minSize <= maxSize
OffsetStrictlyIncreases ==
    [][lChunks' # lChunks =>
          /\ lOffset' > lOffset
          /\ lChunks'[Len(lChunks')] > 0]_vars

\* C38: while the client and the target are both open, every message the
\* client has sent has been passed to the target once and in order, and
\* every message of the target to the client
MessagesForwardedInOrder ==
    (sClient = "OPEN" /\ sTarget = "OPEN") =>
        /\ sToTarget = [i \in 1..sSent |-> i]
        /\ sToClient = [i \in 1..sRecv |-> i]

\* C39: a call of part_009's resolveHostname in which resolve4 and the DoH
\* request both failed returns the hostname
FallsBackToHostname ==
    (nPc = "done" /\ nDns # <<>> /\ ~nDns.ok /\ nDoh # <<>>
        /\ (~nDoh.ok \/ nDoh.Answer = <<>>))
      => nResult = nHost

====
